---------------------------- MODULE Spec2Model ----------------------------
(***************************************************************************)
(* The Weave virtual machine (src/src/weave/vm/vm.rs) as a state machine.  *)
(* One action per opcode handler of VM::run, one for VM::interpret.  The   *)
(* programs it runs are byte code as Compiler emits it (compiler.rs,       *)
(* chunk.rs); byte offsets, operands and constant indices are kept.        *)
(***************************************************************************)
EXTENDS Integers, Sequences, FiniteSets, TLC

VARIABLES
    stack,          \* VM.stack: Vec<NanBoxedValue>
    frames,         \* VM.call_stack.frames: Vec<CallFrame>
    globals,        \* VM.globals: HashMap<String, NanBoxedValue>
    closure_arena,  \* VM.closure_arena: the closures inserted by the interpret()
                    \* calls of the behaviour (none is ever removed: the arena's
                    \* objects are the earlier closures followed by this sequence)
    earlier_closures, \* number of closures that earlier interpret() calls on this VM
                    \* left in the arena; no value refers to them
    upvalue_arena,  \* VM.upvalue_arena: the upvalues inserted so far
    status,         \* "idle" | "running" | "ok" | "error" | "panic"
    result,         \* what run() returned: the value, or the error message
    program,        \* the source handed to interpret(): its script in Functions
    loop_n,         \* the literal N of the while program being interpreted, or
                    \* the number of calls the counter program makes
    runs,           \* number of interpret() calls made on this VM
    acts,           \* history: number of call frames pushed so far
    last_op,        \* history: the opcode executed by the last step
    native_args,    \* history: name and argument slice of the last host call
    uv_log,         \* history: variable and value of the last write to a captured variable
    uv_read,        \* history: variable and value of the last GET_UPVALUE
    scope_stack,    \* Scope.stack: the Vec<InnerScope> every Compiler of one compile shares
    compilers,      \* the Compiler objects alive in Compiler::compile, the script's first,
                    \* the one compiling now last
    emitted,        \* history: what the last compile step declared or wrote to the chunks
    tokens,         \* history: number of variable reads and assignments compiled so far
    fns,            \* history: number of functions and lambdas begun so far
    source,         \* the tokens Scanner::scan_token hands to Compiler::compile, in order
    outcome,        \* what Compiler::compile did with source: nothing yet, or its result
    an_arena,       \* an Arena<T>: objects, generations, free_list, next_generation
    handles,        \* history: the handles insert() has returned
    removed,        \* history: the handles remove() has returned an object for
    cleared,        \* history: the handles insert() had returned when clear() was called
    returned,       \* history: what the last call on the arena returned
    the_chunk,      \* Compiler.function.chunk: code, constants, lines
    cur_line,       \* Compiler.line
    written,        \* history: for each byte of the_chunk.code, the line it was written with
    handed,         \* history: the (index, value) pairs add_constant_only has returned
    heap,           \* number of strings boxed so far: the next address
    whiles,         \* the while_statement calls in progress, the innermost last
    loops,          \* history: the Loop instructions written, each with its condition
    panicked        \* the compiler has panicked

vars == <<stack, frames, globals, closure_arena, earlier_closures, upvalue_arena, status, result,
          program, loop_n, runs, acts, last_op, native_args, uv_log, uv_read,
          scope_stack, compilers, emitted, tokens, fns, source, outcome,
          an_arena, handles, removed, cleared, returned,
          the_chunk, cur_line, written, handed, heap, whiles, loops, panicked>>

\* the state of Compiler::compile, which VM::run never touches
compile_vars == <<scope_stack, compilers, emitted, tokens, fns>>

\* the input and the result of one whole Compiler::compile call
parse_vars == <<source, outcome>>

\* an arena on its own and the history of the calls made on it
arena_vars == <<an_arena, handles, removed, cleared, returned>>

\* a chunk being written and the history of the writes
chunk_vars == <<the_chunk, cur_line, written, handed, heap, whiles, loops, panicked>>

-----------------------------------------------------------------------------
(* Bounds of the model *)

MaxRuns == 2        \* interpret() calls per VM
MaxN == 5           \* largest loop limit N of the while program and largest
                    \* number of calls of the counter program
MaxClock == 1       \* clock() answers 0..MaxClock
MaxDepth == 4       \* deepest nesting of functions in a compiled source
MaxFns == 4         \* functions and lambdas in a compiled source
MaxArity == 1       \* parameters of a function in a compiled source
MaxTokens == 2      \* reads and assignments of variables in a compiled source

(* Program constants *)

FrameLimit == 100   \* vm.rs:536  `frames.len() > 100`
ClosureCapacity == 64   \* vm.rs:175  `ClosureArena::with_capacity(64)`
\* nan_boxed_value.rs:75  `packed & 0x0000FFFFFFFFFFFF`: of the 48 payload bits
\* the low 32 hold the handle's index and 16 are left for its generation
PayloadGenerations == 65536
\* weave_fn.rs:12  `upvalue_count: u8`; the operands of the byte code, the
\* fields of Upvalue and the casts `as u8` of the compiler have this range
U8 == 256

-----------------------------------------------------------------------------
(* NanBoxedValue: tag, numeric payload, string payload *)

\* `hi` is bits 32..47 of the payload; only a closure handle uses them
Num(x) == [t |-> "num", n |-> x, s |-> "", hi |-> 0]
Bool(b) == [t |-> "bool", n |-> IF b THEN 1 ELSE 0, s |-> "", hi |-> 0]
Null == [t |-> "null", n |-> 0, s |-> "", hi |-> 0]
Str(x) == [t |-> "str", n |-> 0, s |-> x, hi |-> 0]
FnPtr(f) == [t |-> "fnptr", n |-> f, s |-> "", hi |-> 0]          \* PointerTag::Closure (constant pool)
NativeFn(name) == [t |-> "native", n |-> 0, s |-> name, hi |-> 0]  \* PointerTag::NativeFn

\* Handle<T>: index and generation (arena.rs)
Handle(index, generation) == [index |-> index, generation |-> generation]
\* Handle::to_u64: (generation << 32) | index, as its two 32-bit halves
to_u64(h) == [hi |-> h.generation, lo |-> h.index]
\* Handle::from_u64: index = value & 0xFFFFFFFF, generation = value >> 32
from_u64(bits) == Handle(bits.lo, bits.hi)
\* NanBoxedValue::closure_handle: the low 48 bits of the packed handle under
\* the ClosureHandle tag
closure_handle(h) ==
    [t |-> "closure", n |-> to_u64(h).lo, s |-> "", hi |-> to_u64(h).hi % PayloadGenerations]
\* NanBoxedValue::as_closure_handle: the handle unpacked from the 48 payload bits
as_closure_handle(v) == from_u64([hi |-> v.hi, lo |-> v.n])

is_number(v) == v.t = "num"
is_string(v) == v.t = "str"
is_closure_handle(v) == v.t = "closure"

is_truthy(v) ==
    IF v.t = "null" THEN FALSE
    ELSE IF v.t = "bool" THEN v.n = 1
    ELSE IF v.t = "num" THEN v.n # 0
    ELSE TRUE

Max(a, b) == IF a >= b THEN a ELSE b
Min(a, b) == IF a <= b THEN a ELSE b

\* Vec::truncate(n)
Truncate(s, n) == SubSeq(s, 1, Min(n, Len(s)))
\* Vec::pop() n times; popping an empty Vec does nothing
PopN(s, n) == SubSeq(s, 1, Max(Len(s) - n, 0))
\* Vec::resize(n, null) for n >= len
Resize(s, n) == [i \in 1..n |-> IF i <= Len(s) THEN s[i] ELSE Null]

NoVar == <<0, 0>>
NoCall == [name |-> "", args |-> <<>>]
NoLog == [var |-> NoVar, val |-> Null]

-----------------------------------------------------------------------------
(* Arithmetic fast paths.  Model numbers are the doubles with an integral  *)
(* value; a quotient that is not integral, or a division by zero, is kept  *)
(* as a marked number.                                                     *)

fast_add(a, b) == Num(a.n + b.n)
fast_sub(a, b) == Num(a.n - b.n)
fast_mul(a, b) == Num(a.n * b.n)
fast_div(a, b) ==
    IF b.n = 0 THEN [t |-> "num", n |-> 0, s |-> "div0", hi |-> 0]
    ELSE IF a.n % b.n = 0 THEN Num(a.n \div b.n)
    ELSE [t |-> "num", n |-> a.n \div b.n, s |-> "inexact", hi |-> 0]
fast_greater(a, b) == Bool(a.n > b.n)
fast_less(a, b) == Bool(a.n < b.n)
\* numbers by value, everything else by its bits (a string by its pointer: the
\* programs below compare no strings)
fast_equal(a, b) == Bool(a = b)

-----------------------------------------------------------------------------
(* The compiled programs: every WeaveFn the compiler produces for them,    *)
(* as {name, arity, upvalue_count, chunk.code, chunk.constants}.           *)
(* A Closure constant (FnPtr) names its function by its place in the table.*)

\* k expression statements `c()` after constant 3 of the script: each is
\* CONSTANT <name>, GetGlobal, Call 0 (Compiler::variable_get, Compiler::fn_call)
\* and interns its own copy of the name
RECURSIVE counter_calls(_)
counter_calls(k) ==
    IF k = 0 THEN <<>> ELSE counter_calls(k - 1) \o <<1, 0, 3 + k, 16, 23, 0>>

\* The functions of every program, for each value N of the literal the while
\* program compares with and of the number of calls the counter program makes
FunctionsFor == [N \in 2..MaxN |-> <<
    \* 1: script: fn t() { a = 1; while a < N { a = a + 1 } a } t()
    [name |-> "", arity |-> 0, upvalue_count |-> 0,
     code |-> <<19, 0, 0, 1, 0, 1, 15, 1, 0, 2, 16, 23, 0, 0>>,
     constants |-> <<FnPtr(2), Str("t"), Str("t")>>],
    \* 2: t: a = 1; while a < N { a = a + 1 } a
    [name |-> "t", arity |-> 0, upvalue_count |-> 0,
     code |-> <<1, 0, 0, 17, 1, 18, 1, 1, 0, 1, 11, 20, 0, 12, 18, 1, 1, 0, 0, 3, 17, 1, 14, 22, 0, 21, 18, 1, 0>>,
     constants |-> <<Num(1), Num(N)>>],
    \* 3: script: fn mk() { n = 0; fn inc() { n = n + 1 } fn get() { inc(); n } get(); get } g = mk(); g()
    [name |-> "", arity |-> 0, upvalue_count |-> 0,
     code |-> <<19, 0, 0, 1, 0, 1, 15, 1, 0, 2, 16, 23, 0, 1, 0, 3, 15, 1, 0, 4, 16, 23, 0, 0>>,
     constants |-> <<FnPtr(4), Str("mk"), Str("mk"), Str("g"), Str("g")>>],
    \* 4: mk: n = 0; fn inc() {..} fn get() {..} get(); get
    [name |-> "mk", arity |-> 0, upvalue_count |-> 0,
     code |-> <<1, 0, 0, 17, 1, 19, 0, 1, 1, 1, 17, 2, 19, 0, 2, 1, 2, 1, 1, 17, 3, 18, 3, 23, 0, 18, 3, 0>>,
     constants |-> <<Num(0), FnPtr(5), FnPtr(6)>>],
    \* 5: inc: n = n + 1
    [name |-> "inc", arity |-> 0, upvalue_count |-> 1,
     code |-> <<25, 0, 1, 0, 0, 3, 24, 0, 0>>,
     constants |-> <<Num(1)>>],
    \* 6: get: inc(); n
    [name |-> "get", arity |-> 0, upvalue_count |-> 2,
     code |-> <<25, 0, 23, 0, 25, 1, 0>>,
     constants |-> <<>>],
    \* 7: script: fn r() { r() } r()
    [name |-> "", arity |-> 0, upvalue_count |-> 0,
     code |-> <<19, 0, 0, 1, 0, 1, 15, 1, 0, 2, 16, 23, 0, 0>>,
     constants |-> <<FnPtr(8), Str("r"), Str("r")>>],
    \* 8: r: r()
    [name |-> "r", arity |-> 0, upvalue_count |-> 0,
     code |-> <<1, 0, 0, 16, 23, 0, 0>>,
     constants |-> <<Str("r")>>],
    \* 9: script: print(7) write("f", 8) clock()
    [name |-> "", arity |-> 0, upvalue_count |-> 0,
     code |-> <<1, 0, 0, 16, 1, 0, 1, 23, 1, 1, 0, 2, 16, 1, 0, 3, 1, 0, 4, 23, 2, 1, 0, 5, 16, 23, 0, 0>>,
     constants |-> <<Str("print"), Num(7), Str("write"), Str("f"), Num(8), Str("clock")>>],
    \* 10: script: fn mk() { n = 0; fn inc() { n = n + 1; n } inc } c = mk(); fn f() { true; while c() < 4 { } } f()
    [name |-> "", arity |-> 0, upvalue_count |-> 0,
     code |-> <<19, 0, 0, 1, 0, 1, 15, 1, 0, 2, 16, 23, 0, 1, 0, 3, 15, 19, 0, 4, 1, 0, 5, 15, 1, 0, 6, 16, 23, 0, 0>>,
     constants |-> <<FnPtr(11), Str("mk"), Str("mk"), Str("c"), FnPtr(13), Str("f"), Str("f")>>],
    \* 11: mk: n = 0; fn inc() {..} inc
    [name |-> "mk", arity |-> 0, upvalue_count |-> 0,
     code |-> <<1, 0, 0, 17, 1, 19, 0, 1, 1, 1, 17, 2, 18, 2, 0>>,
     constants |-> <<Num(0), FnPtr(12)>>],
    \* 12: inc: n = n + 1; n
    [name |-> "inc", arity |-> 0, upvalue_count |-> 1,
     code |-> <<25, 0, 1, 0, 0, 3, 24, 0, 25, 0, 0>>,
     constants |-> <<Num(1)>>],
    \* 13: f: true; while c() < 4 { }
    [name |-> "f", arity |-> 0, upvalue_count |-> 0,
     code |-> <<7, 1, 0, 0, 16, 23, 0, 1, 0, 1, 11, 20, 0, 4, 14, 22, 0, 17, 0>>,
     constants |-> <<Str("c"), Num(4)>>],
    \* 14: script: x = -(6 - 2) * 3 / 4; if !(x > 1) == true { puts x } else { puts false } false
    [name |-> "", arity |-> 0, upvalue_count |-> 0,
     code |-> <<1, 0, 0, 1, 0, 1, 4, 2, 1, 0, 2, 5, 1, 0, 3, 6, 1, 0, 4, 15, 1, 0, 5, 16, 1, 0, 6, 10, 9, 7, 12, 20, 0, 8, 1, 0, 7, 16, 13, 21, 0, 2, 8, 13, 8, 0>>,
     constants |-> <<Num(6), Num(2), Num(3), Num(4), Str("x"), Str("x"), Num(1), Str("x")>>],
    \* 15: script: fn f(p) { g = ^() { p }; zz } f(1)
    [name |-> "", arity |-> 0, upvalue_count |-> 0,
     code |-> <<19, 0, 0, 1, 0, 1, 15, 1, 0, 2, 16, 1, 0, 3, 23, 1, 0>>,
     constants |-> <<FnPtr(16), Str("f"), Str("f"), Num(1)>>],
    \* 16: f(p): g = ^() { p }; zz
    [name |-> "f", arity |-> 1, upvalue_count |-> 0,
     code |-> <<19, 0, 0, 1, 1, 17, 2, 1, 0, 1, 16, 0>>,
     constants |-> <<FnPtr(17), Str("zz")>>],
    \* 17: lambda: p
    [name |-> "<lambda>", arity |-> 0, upvalue_count |-> 1,
     code |-> <<25, 0, 0>>,
     constants |-> <<>>],
    \* 18: script: fn mk() { a = 1; n = 0; fn get() { n } while a < 3 { a = a + 1 } a } mk()
    [name |-> "", arity |-> 0, upvalue_count |-> 0,
     code |-> <<19, 0, 0, 1, 0, 1, 15, 1, 0, 2, 16, 23, 0, 0>>,
     constants |-> <<FnPtr(19), Str("mk"), Str("mk")>>],
    \* 19: mk: a = 1; n = 0; fn get() {..} while a < 3 { a = a + 1 } a
    [name |-> "mk", arity |-> 0, upvalue_count |-> 0,
     code |-> <<1, 0, 0, 17, 1, 1, 0, 1, 17, 2, 19, 0, 2, 1, 2, 17, 3, 18, 1, 1, 0, 3, 11, 20, 0, 12, 18, 1, 1, 0, 0, 3, 17, 1, 14, 22, 0, 21, 18, 1, 0>>,
     constants |-> <<Num(1), Num(0), FnPtr(20), Num(3)>>],
    \* 20: get: n
    [name |-> "get", arity |-> 0, upvalue_count |-> 1,
     code |-> <<25, 0, 0>>,
     constants |-> <<>>],
    \* 21: script: fn make_counter() { count = 0; fn counter() { count = count + 1; count } counter }
    \*             c = make_counter(); c() ... c()      (loop_n calls; tests::test_simple_closure)
    [name |-> "", arity |-> 0, upvalue_count |-> 0,
     code |-> <<19, 0, 0, 1, 0, 1, 15, 1, 0, 2, 16, 23, 0, 1, 0, 3, 15>>
              \o counter_calls(N) \o <<0>>,
     constants |-> <<FnPtr(22), Str("make_counter"), Str("make_counter"), Str("c")>>
                   \o [k \in 1..N |-> Str("c")]],
    \* 22: make_counter: count = 0; fn counter() {..} counter
    [name |-> "make_counter", arity |-> 0, upvalue_count |-> 0,
     code |-> <<1, 0, 0, 17, 1, 19, 0, 1, 1, 1, 17, 2, 18, 2, 0>>,
     constants |-> <<Num(0), FnPtr(23)>>],
    \* 23: counter: count = count + 1; count
    [name |-> "counter", arity |-> 0, upvalue_count |-> 1,
     code |-> <<25, 0, 1, 0, 0, 3, 24, 0, 25, 0, 0>>,
     constants |-> <<Num(1)>>],
    \* 24: script: fn r() { ^() { }; r() } r()
    [name |-> "", arity |-> 0, upvalue_count |-> 0,
     code |-> <<19, 0, 0, 1, 0, 1, 15, 1, 0, 2, 16, 23, 0, 0>>,
     constants |-> <<FnPtr(25), Str("r"), Str("r")>>],
    \* 25: r: ^() { }; r()
    [name |-> "r", arity |-> 0, upvalue_count |-> 0,
     code |-> <<19, 0, 0, 1, 0, 1, 16, 23, 0, 0>>,
     constants |-> <<FnPtr(26), Str("r")>>],
    \* 26: lambda: (empty)
    [name |-> "<lambda>", arity |-> 0, upvalue_count |-> 0,
     code |-> <<0>>,
     constants |-> <<>>],
    \* 27: script: fn f(a) { a } f()
    [name |-> "", arity |-> 0, upvalue_count |-> 0,
     code |-> <<19, 0, 0, 1, 0, 1, 15, 1, 0, 2, 16, 23, 0, 0>>,
     constants |-> <<FnPtr(28), Str("f"), Str("f")>>],
    \* 28: f(a): a
    [name |-> "f", arity |-> 1, upvalue_count |-> 0,
     code |-> <<18, 1, 0>>,
     constants |-> <<>>],
    \* 29: script: x = 5 x(2)
    [name |-> "", arity |-> 0, upvalue_count |-> 0,
     code |-> <<1, 0, 0, 1, 0, 1, 15, 1, 0, 2, 16, 1, 0, 3, 23, 1, 0>>,
     constants |-> <<Num(5), Str("x"), Str("x"), Num(2)>>],
    \* 30: script: fn add(a, b) { a + b } add(-1, 4)
    [name |-> "", arity |-> 0, upvalue_count |-> 0,
     code |-> <<19, 0, 0, 1, 0, 1, 15, 1, 0, 2, 16, 1, 0, 3, 2, 1, 0, 4, 23, 2, 0>>,
     constants |-> <<FnPtr(31), Str("add"), Str("add"), Num(1), Num(4)>>],
    \* 31: add(a, b): a + b
    [name |-> "add", arity |-> 2, upvalue_count |-> 0,
     code |-> <<18, 1, 18, 2, 3, 0>>,
     constants |-> <<>>],
    \* 32: script: a = 1 fn foo() { a = a; a = a + 2 } foo() a      (tests::test_shadowing_self)
    [name |-> "", arity |-> 0, upvalue_count |-> 0,
     code |-> <<1, 0, 0, 1, 0, 1, 15, 19, 0, 2, 1, 0, 3, 15, 1, 0, 4, 16, 23, 0, 1, 0, 5, 16, 0>>,
     constants |-> <<Num(1), Str("a"), FnPtr(33), Str("foo"), Str("foo"), Str("a")>>],
    \* 33: foo: a = a; a = a + 2
    [name |-> "foo", arity |-> 0, upvalue_count |-> 0,
     code |-> <<1, 0, 0, 16, 17, 1, 18, 1, 1, 0, 1, 3, 17, 1, 0>>,
     constants |-> <<Str("a"), Num(2)>>],
    \* 34: script: fn f() { } f()
    [name |-> "", arity |-> 0, upvalue_count |-> 0,
     code |-> <<19, 0, 0, 1, 0, 1, 15, 1, 0, 2, 16, 23, 0, 0>>,
     constants |-> <<FnPtr(35), Str("f"), Str("f")>>],
    \* 35: f: (empty)
    [name |-> "f", arity |-> 0, upvalue_count |-> 0,
     code |-> <<0>>,
     constants |-> <<>>],
    \* 36: script: a = a      (tests::test_bad_initializer)
    [name |-> "", arity |-> 0, upvalue_count |-> 0,
     code |-> <<1, 0, 0, 16, 1, 0, 1, 15, 0>>,
     constants |-> <<Str("a"), Str("a")>>],
    \* 37: script: "a" < 1
    [name |-> "", arity |-> 0, upvalue_count |-> 0,
     code |-> <<1, 0, 0, 1, 0, 1, 11, 0>>,
     constants |-> <<Str("a"), Num(1)>>],
    \* 38: script: "a" <= 1
    [name |-> "", arity |-> 0, upvalue_count |-> 0,
     code |-> <<1, 0, 0, 1, 0, 1, 10, 9, 0>>,
     constants |-> <<Str("a"), Num(1)>>],
    \* 39: script: "a" > 1
    [name |-> "", arity |-> 0, upvalue_count |-> 0,
     code |-> <<1, 0, 0, 1, 0, 1, 10, 0>>,
     constants |-> <<Str("a"), Num(1)>>],
    \* 40: script: "a" >= 1
    [name |-> "", arity |-> 0, upvalue_count |-> 0,
     code |-> <<1, 0, 0, 1, 0, 1, 11, 9, 0>>,
     constants |-> <<Str("a"), Num(1)>>],
    \* 41: script: false and 1
    [name |-> "", arity |-> 0, upvalue_count |-> 0,
     code |-> <<8, 20, 0, 4, 14, 1, 0, 0, 0>>,
     constants |-> <<Num(1)>>],
    \* 42: script: true and 1
    [name |-> "", arity |-> 0, upvalue_count |-> 0,
     code |-> <<7, 20, 0, 4, 14, 1, 0, 0, 0>>,
     constants |-> <<Num(1)>>],
    \* 43: script: true or 1
    [name |-> "", arity |-> 0, upvalue_count |-> 0,
     code |-> <<7, 20, 0, 3, 21, 0, 4, 14, 1, 0, 0, 0>>,
     constants |-> <<Num(1)>>],
    \* 44: script: false or 1
    [name |-> "", arity |-> 0, upvalue_count |-> 0,
     code |-> <<8, 20, 0, 3, 21, 0, 4, 14, 1, 0, 0, 0>>,
     constants |-> <<Num(1)>>],
    \* 45: script: fn outer() { x = 2; fn inner() { x } inner(); x = 5; inner() } outer()
    [name |-> "", arity |-> 0, upvalue_count |-> 0,
     code |-> <<19, 0, 0, 1, 0, 1, 15, 1, 0, 2, 16, 23, 0, 0>>,
     constants |-> <<FnPtr(46), Str("outer"), Str("outer")>>],
    \* 46: outer: x = 2; fn inner() { x } inner(); x = 5; inner()
    [name |-> "outer", arity |-> 0, upvalue_count |-> 0,
     code |-> <<1, 0, 0, 17, 1, 19, 0, 1, 1, 1, 17, 2, 18, 2, 23, 0, 1, 0, 2, 17, 1, 18, 2, 23, 0, 0>>,
     constants |-> <<Num(2), FnPtr(47), Num(5)>>],
    \* 47: inner: x
    [name |-> "inner", arity |-> 0, upvalue_count |-> 1,
     code |-> <<25, 0, 0>>,
     constants |-> <<>>]
>>]

\* the functions of the source being interpreted
Functions == FunctionsFor[loop_n]

\* The script function of each program
Programs ==
    {1, 3, 7, 9, 10, 14, 15, 18, 21, 24, 27, 29, 30, 32, 34, 36, 37, 38, 39, 40, 41, 42, 43, 44, 45}
WhileProgram == {1}
\* the program whose number of calls is loop_n
CounterProgram == {21}

\* NativeFnType::variants, installed as globals by VM::new
NativeNames == {"input", "print", "clock", "read", "write"}

-----------------------------------------------------------------------------
(* Reading the current frame *)

cur_frame == frames[Len(frames)]
cur_closure == closure_arena[cur_frame.closure]
cur_chunk == Functions[cur_closure.func]

\* Op::at
Op_at(byte) ==
    CASE byte = 0 -> "RETURN"      [] byte = 1 -> "CONSTANT"   [] byte = 2 -> "NEGATE"
      [] byte = 3 -> "ADD"         [] byte = 4 -> "SUB"        [] byte = 5 -> "MUL"
      [] byte = 6 -> "DIV"         [] byte = 7 -> "TRUE"       [] byte = 8 -> "FALSE"
      [] byte = 9 -> "NOT"         [] byte = 10 -> "GREATER"   [] byte = 11 -> "LESS"
      [] byte = 12 -> "EQUAL"      [] byte = 13 -> "PRINT"     [] byte = 14 -> "POP"
      [] byte = 15 -> "SetGlobal"  [] byte = 16 -> "GetGlobal" [] byte = 17 -> "SetLocal"
      [] byte = 18 -> "GetLocal"   [] byte = 19 -> "Closure"   [] byte = 20 -> "JumpIfFalse"
      [] byte = 21 -> "Jump"       [] byte = 22 -> "Loop"      [] byte = 23 -> "Call"
      [] byte = 24 -> "SetUpvalue" [] byte = 25 -> "GetUpvalue"
      [] OTHER -> "INVALID"

\* IP::next at offset k after the frame's ip: the byte, or 0 past the end
byte_at(k) ==
    IF cur_frame.ip + k < Len(cur_chunk.code) THEN cur_chunk.code[cur_frame.ip + k + 1] ELSE 0
\* IP::next_u16 of the two bytes after the opcode (big endian)
operand_u16 == byte_at(1) * 256 + byte_at(2)
\* the ip after n reads of IP::next (it does not move past the end)
ip_after(n) == Min(cur_frame.ip + n, Max(cur_frame.ip, Len(cur_chunk.code)))

\* CallStack::next_op: the opcode the dispatch loop decodes next
next_op == Op_at(byte_at(0))

\* `while !self.call_stack.is_at_end()` with the VM inside run()
Dispatch(op) ==
    /\ status = "running"
    /\ frames # <<>>
    /\ cur_frame.ip < Len(cur_chunk.code)
    /\ next_op = op

\* the frames with the current frame's ip set
with_ip(ip) == [frames EXCEPT ![Len(frames)].ip = ip]

Top(s) == s[Len(s)]
\* self.stack.pop().unwrap_or(NanBoxedValue::null())
pop_or_null(s) == IF s = <<>> THEN Null ELSE Top(s)

-----------------------------------------------------------------------------
(* Scope (compiler/internal/scope.rs) and Upvalue (vm/types/weave_fn.rs):   *)
(* the compile-time resolution of names.  Indices are the source's 0-based  *)
(* indices; the k-th element of a Vec is element k + 1 of its sequence.     *)

Names == {"x", "y"}     \* identifiers of variables and parameters
FnNames == {"f"}        \* names of function statements

Local(name, depth) == [name |-> name, depth |-> depth]
\* an InnerScope that reserves no local for the function object
InnerScope_new_unreserved == [locals |-> <<>>, upvalues |-> <<>>]
\* InnerScope::new: the first local is reserved for the function object
InnerScope_new == [locals |-> <<Local("", 0)>>, upvalues |-> <<>>]     \* Local::empty
Scope_new == <<InnerScope_new>>

\* the cast `as u8`
as_u8(n) == n % U8

Upvalue(idx, is_local, original_idx) ==
    [idx |-> idx, is_local |-> is_local, original_idx |-> original_idx]
\* impl PartialEq for Upvalue: idx is not compared
Upvalue_eq(u, v) == u.original_idx = v.original_idx /\ u.is_local = v.is_local
\* Upvalue::to_bytes
Upvalue_to_bytes(u) ==
    <<IF u.is_local THEN 1 ELSE 0, IF u.is_local THEN u.original_idx ELSE u.idx>>

least(S) == CHOOSE i \in S : \A j \in S : i <= j
greatest(S) == CHOOSE i \in S : \A j \in S : i >= j
named(locals, identifier) == {i \in DOMAIN locals : locals[i].name = identifier}

\* InnerScope::resolve_local: the first local of that name, or None (-1)
InnerScope_resolve_local(inner, identifier) ==
    IF named(inner.locals, identifier) = {} THEN 0 - 1
    ELSE least(named(inner.locals, identifier)) - 1

\* Scope::resolve_local: the last local of that name in stack[depth], or -1
Scope_resolve_local(st, depth, identifier) ==
    IF depth >= Len(st) THEN 0 - 1
    ELSE IF named(st[depth + 1].locals, identifier) = {} THEN 0 - 1
    ELSE greatest(named(st[depth + 1].locals, identifier)) - 1

\* Scope::declare_local: the stack afterwards and the slot returned
declare_local(st, depth, identifier) ==
    IF depth >= Len(st) THEN [stack |-> st, slot |-> 0]
    ELSE LET locals == Append(st[depth + 1].locals, Local(identifier, depth))
         IN [stack |-> [st EXCEPT ![depth + 1].locals = locals],
             slot |-> Len(locals) - 1]

\* Scope::add_upvalue: the stack afterwards and the Upvalue returned, whose
\* idx is the position in the upvalue array of the function at `depth`
add_upvalue(st, upvalue, depth) ==
    LET upvals == st[depth + 1].upvalues
        same == {i \in DOMAIN upvals : Upvalue_eq(upvals[i], upvalue)}
    IN IF same # {}
       THEN [stack |-> st, found |-> TRUE,
             upvalue |-> Upvalue(as_u8(least(same) - 1), upvalue.is_local,
                                 upvalue.original_idx)]
       ELSE [stack |-> [st EXCEPT ![depth + 1].upvalues = Append(upvals, upvalue)],
             found |-> TRUE,
             upvalue |-> Upvalue(as_u8(Len(upvals)), upvalue.is_local, upvalue.original_idx)]

\* Scope::recursive_resolve_upvalue: `found` is Option::is_some
RECURSIVE recursive_resolve_upvalue(_, _, _)
recursive_resolve_upvalue(st, identifier, depth) ==
    IF depth = 0 THEN [stack |-> st, found |-> FALSE, upvalue |-> Upvalue(0 - 1, FALSE, 0 - 1)]   \* None
    ELSE LET parent_depth == depth - 1
             parent_local == InnerScope_resolve_local(st[parent_depth + 1], identifier)
             parent_resolved == recursive_resolve_upvalue(st, identifier, parent_depth)
         IN IF parent_local >= 0
            THEN add_upvalue(st, Upvalue(as_u8(parent_local), TRUE, as_u8(parent_local)), depth)  \* Upvalue::local
            ELSE IF ~parent_resolved.found THEN parent_resolved
            ELSE add_upvalue(parent_resolved.stack,
                             Upvalue(parent_resolved.upvalue.idx, FALSE,
                                     parent_resolved.upvalue.original_idx),
                             depth)

\* Scope::incr (enter_scope): the child's depth is depth + 1 and the shared
\* stack gets one more InnerScope
incr(st) == Append(st, InnerScope_new)
\* Scope::pop_scope (exit_scope, decr)
pop_scope(st) == IF st = <<>> THEN st ELSE SubSeq(st, 1, Len(st) - 1)
\* Scope::enter_function_scope: the child's depth is depth + 1, and the scope at
\* that depth is a new InnerScope; the scopes of the enclosing functions stay
enter_function_scope_accumulating(st, depth) == Append(st, InnerScope_new)

enter_function_scope(st, depth) == Append(SubSeq(st, 1, depth + 1), InnerScope_new)

\* Compiler::new / new_func_compiler: `refs` is history, the upvalue index each
\* reference to an enclosing variable was compiled to
Compiler(name, kind, depth) ==
    [name |-> name, kind |-> kind, arity |-> 0, depth |-> depth, upvalue_count |-> 0,
     refs |-> {}]

Emit(op, arg, name, depth, bytes) ==
    [op |-> op, arg |-> arg, name |-> name, depth |-> depth, bytes |-> bytes]

-----------------------------------------------------------------------------
(* The Pratt parser of Compiler::compile, over the token kinds the Scanner  *)
(* produces. A Compiler here is the record of the fields parsing reads and  *)
(* writes: the Parser, had_error, panic_mode and function_type; the chunk   *)
(* it writes is left out. Fields errors, assigned, refused, returns,        *)
(* cant_return, unsynced and resurfaced are history: they are handed from a *)
(* Compiler to the one it creates and back.                                 *)

Precedence ==
    [NONE |-> 0, ASSIGNMENT |-> 1, OR |-> 2, AND |-> 3, EQUALITY |-> 4, COMPARISON |-> 5,
     TERM |-> 6, FACTOR |-> 7, UNARY |-> 8, CALL |-> 9, PRIMARY |-> 10]

\* the ParseRule {prefix, infix, precedence} of a token; ParseRule::new has no
\* rule and precedence NONE
ParseRule_for_token(token_type) ==
    LET ParseRule(prefix, infix, precedence) ==
            [prefix |-> prefix, infix |-> infix, precedence |-> precedence]
    IN CASE token_type = "LeftParen" -> ParseRule("grouping", "none", Precedence.NONE)
         [] token_type = "Bang" -> ParseRule("unary", "none", Precedence.NONE)
         [] token_type \in {"NEqual", "EqEqual"} ->
                ParseRule("none", "binary", Precedence.EQUALITY)
         [] token_type \in {"Greater", "GEqual", "Less", "LEqual"} ->
                ParseRule("none", "binary", Precedence.COMPARISON)
         [] token_type = "Minus" -> ParseRule("unary", "binary", Precedence.TERM)
         [] token_type = "Plus" -> ParseRule("none", "binary", Precedence.TERM)
         [] token_type \in {"Slash", "Star"} -> ParseRule("none", "binary", Precedence.FACTOR)
         [] token_type \in {"True", "False"} -> ParseRule("literal", "none", Precedence.NONE)
         [] token_type = "Number" -> ParseRule("number", "none", Precedence.NONE)
         [] token_type = "String" -> ParseRule("string", "none", Precedence.NONE)
         [] token_type = "Identifier" -> ParseRule("variable", "none", Precedence.NONE)
         [] OTHER -> ParseRule("none", "none", Precedence.NONE)

\* the table of the revision compiler.rs belongs to: its rules Compiler::fn_call
\* (the call operator, precedence CALL) and Compiler::lambda (prefix rule of ^)
\* are called from this table only
rule_for(token_type) ==
    CASE token_type = "LeftParen" ->
             [prefix |-> "grouping", infix |-> "fn_call", precedence |-> Precedence.CALL]
      [] token_type = "Caret" ->
             [prefix |-> "lambda", infix |-> "none", precedence |-> Precedence.NONE]
      [] OTHER -> ParseRule_for_token(token_type)

\* Scanner::scan_token on a scanner that has handed out `current` tokens of code
scan_token(scanner) ==
    IF scanner.current < Len(scanner.code)
    THEN [scanner |-> [scanner EXCEPT !.current = @ + 1],
          token |-> scanner.code[scanner.current + 1]]
    ELSE [scanner |-> scanner, token |-> "EOF"]

\* Parser::prev: peek() is prev(0), previous() is prev(1)
Parser_prev(parser, i) ==
    IF i < Len(parser.tokens) THEN parser.tokens[i + 1] ELSE "ERROR"

Parser_next(parser) ==
    LET scanned(s) ==
            IF s.token = "EOF" /\ Parser_prev(parser, 0) = "EOF"
            THEN [parser |-> [parser EXCEPT !.scanner = s.scanner], item |-> "None"]
            ELSE IF s.token = "ERROR"
            THEN [parser |-> [parser EXCEPT !.scanner = s.scanner], item |-> "ERROR"]
            ELSE [parser |-> [parser EXCEPT !.scanner = s.scanner,
                                            !.tokens = <<s.token>> \o @],
                  item |-> s.token]
    IN scanned(scan_token(parser.scanner))

\* Compiler::new with Parser::new and Scanner::new
Compiler_new(code) ==
    [parser |-> [scanner |-> [code |-> code, current |-> 0], tokens |-> <<>>],
     had_error |-> FALSE, panic_mode |-> FALSE,
     function_type |-> "Script", overflow |-> FALSE,
     errors |-> 0, assigned |-> {}, refused |-> 0, returns |-> 0, cant_return |-> {},
     unsynced |-> FALSE, resurfaced |-> 0]

new_func_compiler(c) ==
    [c EXCEPT !.had_error = FALSE, !.panic_mode = FALSE, !.function_type = "Function"]

\* self.parser = func_compiler.parser, and nothing else of the function's Compiler
leap_forward(c, func_compiler) ==
    [func_compiler EXCEPT !.had_error = c.had_error, !.panic_mode = c.panic_mode,
                          !.function_type = c.function_type]

cur_is(c, token_type) == Parser_prev(c.parser, 0) = token_type

\* report_err_at, and report_err, which calls it with the previous token.
\* History: unsynced says an error was logged and synchronize() has not run
\* since; resurfaced counts the errors logged in that situation.
report_err_at(c) ==
    IF c.panic_mode
    THEN c
    ELSE [c EXCEPT !.had_error = TRUE, !.panic_mode = TRUE, !.errors = @ + 1,
                   !.unsynced = TRUE,
                   !.resurfaced = IF c.unsynced THEN @ + 1 ELSE @]

RECURSIVE advance(_)
advance(c) ==
    LET moved(n) ==
            IF n.item = "ERROR"
            THEN advance(report_err_at([c EXCEPT !.parser = n.parser]))
            ELSE [c EXCEPT !.parser = n.parser]
    IN moved(Parser_next(c.parser))

consume(c, token_type) == IF cur_is(c, token_type) THEN advance(c) ELSE report_err_at(c)

\* check(): the token is skipped when it is the current one
check(c, token_type) == IF cur_is(c, token_type) THEN advance(c) ELSE c

RECURSIVE parse_precedence(_, _, _)
RECURSIVE infix_loop(_, _)
RECURSIVE declaration(_)
RECURSIVE block(_)

expression(c, context) ==
    check(parse_precedence(c, Precedence.ASSIGNMENT, context), "Semicolon")

expression_statement(c) == check(expression(c, "statement"), "Semicolon")

\* variable(): variable_set when = follows and assignment is permitted, else
\* variable_get
variable(c, assign_mode, context) ==
    IF cur_is(c, "Equal") /\ assign_mode
    THEN expression(consume([c EXCEPT !.assigned = @ \cup {context}], "Equal"), "value")
    ELSE IF cur_is(c, "Equal") THEN [c EXCEPT !.refused = @ + 1] ELSE c

grouping(c) == consume(expression(c, "group"), "RightParen")

unary(c) == parse_precedence(c, Precedence.UNARY, "operand")

binary(c) ==
    parse_precedence(c,
        LET next(p) == IF p = Precedence.PRIMARY THEN p ELSE p + 1       \* Precedence::next
        IN next(ParseRule_for_token(Parser_prev(c.parser, 1)).precedence),
        "operand")

\* the loop of arg_count
RECURSIVE arg_loop(_)
arg_loop(c) ==
    LET more(a) == IF ~a.overflow /\ cur_is(a, "Comma") THEN arg_loop(advance(a)) ELSE a
    IN more(expression(c, "argument"))

\* fn_call, which is arg_count and the emission of Op::Call
fn_call(c) ==
    consume(IF ~cur_is(c, "RightParen") THEN arg_loop(c) ELSE c, "RightParen")

\* the loop of function_params
RECURSIVE param_loop(_)
param_loop(c) ==
    LET more(a) == IF cur_is(a, "Comma") THEN param_loop(advance(a)) ELSE a
    IN more(consume(c, "Identifier"))

\* Compiler::function; Compiler::lambda_function is the same calls in the same order
function(c) ==
    LET params(opened) ==
            IF ~cur_is(opened, "RightParen") THEN param_loop(opened) ELSE opened
    IN block(consume(consume(params(consume(c, "LeftParen")), "RightParen"), "LeftBrace"))

function_statement(c) ==
    LET compiled_as(declared) ==
            leap_forward(declared, function(new_func_compiler(declared)))
    IN compiled_as(consume(c, "Identifier"))

lambda(c) == leap_forward(c, function(new_func_compiler(c)))

return_statement_anywhere(c) ==
    LET value(counted) ==
            IF cur_is(counted, "Semicolon")
            THEN advance(counted)
            ELSE expression(counted, "return")
    IN value([c EXCEPT !.returns = @ + 1])

return_statement(c) ==
    IF c.function_type = "Script"
    THEN report_err_at([c EXCEPT !.cant_return = @ \cup {c.function_type}])
    ELSE LET value(counted) ==
                 IF cur_is(counted, "Semicolon")
                 THEN advance(counted)
                 ELSE expression(counted, "return")
         IN value([c EXCEPT !.returns = @ + 1])

if_statement(c) ==
    LET else_block(then_block) ==
            IF cur_is(then_block, "Else")
            THEN block(consume(advance(then_block), "LeftBrace"))
            ELSE then_block
    IN else_block(block(consume(expression_statement(c), "LeftBrace")))

\* statement(), with puts_statement (an expression) and while_statement (the
\* condition, {, the block) in place
statement(c) ==
    CASE cur_is(c, "Puts") -> expression(advance(c), "puts")
      [] cur_is(c, "Return") -> return_statement(advance(c))
      [] cur_is(c, "If") -> if_statement(advance(c))
      [] cur_is(c, "FN") -> function_statement(advance(c))
      [] cur_is(c, "While") ->
             block(consume(expression_statement(advance(c)), "LeftBrace"))
      [] OTHER -> expression_statement(c)

\* the loop of synchronize(), entered with panic_mode reset
RECURSIVE synchronize(_)
synchronize(c) ==
    IF cur_is(c, "EOF") \/ Parser_prev(c.parser, 1) = "Semicolon"
       \/ Parser_prev(c.parser, 0) \in {"FN", "Puts", "If", "Return"}
    THEN c
    ELSE synchronize(advance(c))

declaration(c) ==
    statement(IF c.panic_mode
              THEN synchronize([c EXCEPT !.panic_mode = FALSE, !.unsynced = FALSE])
              ELSE c)

block(c) ==
    IF ~cur_is(c, "RightBrace") /\ ~cur_is(c, "EOF") /\ ~c.overflow
    THEN block(declaration(c))
    ELSE consume(c, "RightBrace")

\* At the end of the source advance() changes nothing, so a prefix rule that
\* starts by parsing an expression finds itself as the previous token again
\* and recurses until the stack is exhausted. The rules literal, number and
\* string only write to the chunk.
parse_precedence(c, precedence, context) ==
    LET prefix(a, rule) ==
            CASE rule = "none" -> report_err_at(a)
              [] cur_is(c, "EOF") /\ rule \in {"grouping", "unary"} ->
                     [a EXCEPT !.overflow = TRUE]
              [] rule = "grouping" -> grouping(a)
              [] rule = "unary" -> unary(a)
              [] rule = "variable" ->
                     variable(a, ~(precedence > Precedence.ASSIGNMENT), context)
              [] rule = "lambda" -> lambda(a)
              [] OTHER -> a
        parsed(a) == prefix(a, rule_for(Parser_prev(a.parser, 1)).prefix)
    IN infix_loop(parsed(advance(c)), precedence)

\* the while loop of parse_precedence; nothing follows the exhaustion of the stack
infix_loop(c, precedence) ==
    LET infix(a, rule) ==
            CASE rule = "binary" -> binary(a)
              [] rule = "fn_call" -> fn_call(a)
              [] OTHER -> report_err_at(a)
        parsed(a) == infix(a, rule_for(Parser_prev(a.parser, 1)).infix)
    IN IF ~c.overflow /\ precedence <= rule_for(Parser_prev(c.parser, 0)).precedence
       THEN infix_loop(parsed(advance(c)), precedence)
       ELSE c

\* the while loop of compile()
RECURSIVE declarations(_)
declarations(c) ==
    IF ~cur_is(c, "EOF") /\ ~c.overflow THEN declarations(declaration(c)) ELSE c

\* Compiler::compile for the source code: "Ok" stands for the function it
\* returns, "Err" for Err("Compilation error"), "overflow" for the abort of
\* the process when the parser's recursion exhausts the stack
compile(code) ==
    LET outcome_of(c) ==
            [result |-> IF c.overflow THEN "overflow" ELSE IF c.had_error THEN "Err" ELSE "Ok",
             errors |-> c.errors, assigned |-> c.assigned, refused |-> c.refused,
             returns |-> c.returns, cant_return |-> c.cant_return,
             resurfaced |-> c.resurfaced]
    IN outcome_of(consume(declarations(advance(Compiler_new(code))), "EOF"))

\* Compiler::compile has not been called
NotCompiled ==
    [result |-> "none", errors |-> 0, assigned |-> {}, refused |-> 0, returns |-> 0,
     cant_return |-> {}, resurfaced |-> 0]

-----------------------------------------------------------------------------
(* Arena<T>: a generational arena. A slot of objects holds Some(object) or  *)
(* None; next_generation is a u32 advanced by wrapping_add, which wraps     *)
(* after 2^32 insertions, far beyond the MaxInserts insertions made here.   *)

None == "None"

Objects == {"first", "second"}

Arena_new == [objects |-> <<>>, generations |-> <<>>, free_list |-> <<>>, next_generation |-> 1]

wrapping_add(n) == n + 1

\* Arena::insert: the arena afterwards and the handle returned; index is 0-based
Arena_insert(a, object) ==
    LET generation == a.next_generation
    IN IF a.free_list # <<>>
       THEN LET index == a.free_list[Len(a.free_list)]
            IN [arena |-> [objects |-> [a.objects EXCEPT ![index + 1] = object],
                           generations |-> [a.generations EXCEPT ![index + 1] = generation],
                           free_list |-> SubSeq(a.free_list, 1, Len(a.free_list) - 1),
                           next_generation |-> wrapping_add(a.next_generation)],
                handle |-> Handle(index, generation)]
       ELSE LET index == Len(a.objects)
            IN [arena |-> [objects |-> Append(a.objects, object),
                           generations |-> Append(a.generations, generation),
                           free_list |-> a.free_list,
                           next_generation |-> wrapping_add(a.next_generation)],
                handle |-> Handle(index, generation)]

Arena_get_from(a, handle) ==
    IF handle.index >= Len(a.objects) THEN None
    ELSE IF a.generations[handle.index + 1] # handle.generation THEN None
    ELSE a.objects[handle.index + 1]

\* Arena::remove that does not compare the generation of the handle
Arena_remove_any_generation(a, handle) ==
    IF handle.index >= Len(a.objects) THEN [arena |-> a, object |-> None]
    ELSE LET object == a.objects[handle.index + 1]
         IN IF object # None
            THEN [arena |-> [a EXCEPT !.objects[handle.index + 1] = None,
                                      !.generations[handle.index + 1] = wrapping_add(@),
                                      !.free_list = Append(@, handle.index)],
                  object |-> object]
            ELSE [arena |-> a, object |-> None]

\* Arena::remove: the arena afterwards and the object returned
Arena_remove(a, handle) ==
    IF handle.index >= Len(a.objects) THEN [arena |-> a, object |-> None]
    ELSE IF a.generations[handle.index + 1] # handle.generation
    THEN [arena |-> a, object |-> None]
    ELSE LET object == a.objects[handle.index + 1]
         IN IF object # None
            THEN [arena |-> [a EXCEPT !.objects[handle.index + 1] = None,
                                      !.generations[handle.index + 1] = wrapping_add(@),
                                      !.free_list = Append(@, handle.index)],
                  object |-> object]
            ELSE [arena |-> a, object |-> None]

Arena_is_valid(a, handle) ==
    /\ handle.index < Len(a.objects)
    /\ a.generations[handle.index + 1] = handle.generation
    /\ a.objects[handle.index + 1] # None

\* no call has been made on the arena
Nothing == [kind |-> "nothing"]

-----------------------------------------------------------------------------
(* Chunk: the code, the constant pool and the line table of one function,   *)
(* and the Compiler methods that write to it.                               *)

\* Op::bytecode: the one byte of an opcode
Op_bytecode(op) == CHOOSE byte \in 0..25 : Op_at(byte) = op

\* Chunk::write_byte: lines gets (offset, line) when line is not the line of
\* its last entry, (0, 0) standing for the last entry of an empty table
write_byte(chunk, byte, line) ==
    LET last_line == IF chunk.lines = <<>> THEN 0 ELSE chunk.lines[Len(chunk.lines)][2]
    IN [chunk EXCEPT !.code = Append(@, byte),
                     !.lines = IF last_line # line
                               THEN Append(@, <<Len(chunk.code), line>>)
                               ELSE @]

\* Chunk::write
RECURSIVE write(_, _, _)
write(chunk, bytes, line) ==
    IF bytes = <<>> THEN chunk
    ELSE write(write_byte(chunk, Head(bytes), line), Tail(bytes), line)

\* Chunk::line_number_at: the line of the first entry whose offset is not
\* below the offset asked for, 0 when there is none
line_number_at(chunk, offset) ==
    LET found == {i \in DOMAIN chunk.lines : chunk.lines[i][1] >= offset}
    IN IF found = {} THEN 0 ELSE chunk.lines[least(found)][2]

\* Chunk::add_constant_only: position(|v| v == value) compares the 64 bits
add_constant_only(chunk, value) ==
    LET same == {i \in DOMAIN chunk.constants : chunk.constants[i] = value}
    IN IF same # {}
       THEN [chunk |-> chunk, idx |-> least(same) - 1]
       ELSE [chunk |-> [chunk EXCEPT !.constants = Append(@, value)],
             idx |-> Len(chunk.constants)]

\* Chunk::emit_constant: write_op(CONSTANT), then add_constant, which writes
\* the index add_constant_only returns as a big-endian u16
emit_constant(chunk, value, line) ==
    LET added(r) ==
            [chunk |-> write(r.chunk, <<(r.idx \div 256) % 256, r.idx % 256>>, line),
             idx |-> r.idx]
    IN added(add_constant_only(write(chunk, <<Op_bytecode("CONSTANT")>>, line), value))

\* Compiler::emit_opcode, and emit_basic_opcode when args is empty
emit_opcode(chunk, op, args, line) == write(write(chunk, <<Op_bytecode(op)>>, line), args, line)

\* Compiler::emit_jump: the chunk and the offset of the operand to patch
emit_jump(chunk, op, line) ==
    LET jump_at(emitted_to) == [chunk |-> emitted_to, at |-> Len(emitted_to.code) - 2]
    IN jump_at(emit_opcode(chunk, op, <<255, 255>>, line))

patch_jump(chunk, jmp_param) ==
    LET jump == Len(chunk.code) - jmp_param - 2
    IN [chunk EXCEPT !.code[jmp_param + 1] = (jump \div 256) % 256,
                     !.code[jmp_param + 2] = jump % 256]

\* Compiler::emit_loop. loop_start is a usize: the value usize::MAX, which
\* while_statement computes in a build without overflow checks, is written
\* 0 - 1 here, and the wrapping sum len - loop_start + 2 is then the integer sum
emit_loop(chunk, loop_start, line) ==
    LET offset == Len(chunk.code) - loop_start + 2
    IN emit_opcode(chunk, "Loop", <<(offset \div 256) % 256, offset % 256>>, line)

\* Op::Loop at offset `at` of the code: IP::next_u16 reads the operand and
\* IP::jump_back subtracts it from the ip, which is then past the operand
Loop_target(code, at) == (at + 3) - (code[at + 2] * 256 + code[at + 3])

-----------------------------------------------------------------------------
(* VM::new; no source is being compiled *)

VM_new ==
    /\ stack = <<>>
    /\ frames = <<>>
    /\ globals = [name \in NativeNames |-> NativeFn(name)]
    /\ closure_arena = <<>>
    /\ earlier_closures \in {0, PayloadGenerations - 2}
    /\ upvalue_arena = <<>>
    /\ status = "idle"
    /\ result = Null
    /\ program = 0
    /\ loop_n = 2
    /\ runs = 0
    /\ acts = 0
    /\ last_op = "none"
    /\ native_args = NoCall
    /\ uv_log = NoLog
    /\ uv_read = NoLog
    /\ scope_stack = Scope_new
    /\ compilers = <<Compiler("", "script", 0)>>
    /\ emitted = <<>>
    /\ tokens = 0
    /\ fns = 0
    /\ outcome = NotCompiled
    /\ an_arena = Arena_new
    /\ handles = {}
    /\ removed = {}
    /\ cleared = {}
    /\ returned = Nothing
    /\ the_chunk = [code |-> <<>>, constants |-> <<>>, lines |-> <<>>]     \* Chunk::new
    /\ cur_line = 1
    /\ written = <<>>
    /\ handed = {}
    /\ heap = 0
    /\ whiles = <<>>
    /\ loops = {}
    /\ panicked = FALSE

Init == VM_new /\ source = <<>>

\* The buffer of the arena's objects Vec when it holds n entries: the Vec starts
\* with the capacity c of with_capacity and, when a push finds it full, moves
\* to a new buffer of twice the size.  A buffer is named by its size.
RECURSIVE buffer_of(_, _)
buffer_of(n, c) == IF n <= c THEN c ELSE buffer_of(n, 2 * c)

\* `closure_ref as *const FnClosure`: the address of entry `closure` of the
\* arena, i.e. the buffer that holds the arena's objects at that time
closure_ptr(arena) == buffer_of(earlier_closures + Len(arena), ClosureCapacity)

\* Arena::insert (the free list is empty: nothing is ever removed): the handle
\* of entry i of closure_arena.  Its index is the length of objects before the
\* push; its generation is next_generation, which starts at 1 and grows by one
\* with every insert (no run of the model comes near its wrap at 2^32).
inserted_handle(i) == Handle(earlier_closures + i - 1, earlier_closures + i)

\* Arena::get: the entry of closure_arena the handle leads to, or 0 for None
Arena_get(h) ==
    IF h.index >= earlier_closures + Len(closure_arena) THEN 0
    ELSE IF inserted_handle(h.index - earlier_closures + 1).generation # h.generation THEN 0
    ELSE h.index - earlier_closures + 1

\* CallFrame.closure dangles when the arena's objects have moved to another
\* buffer since the frame was pushed
dangling(frame) == frame.ptr # closure_ptr(closure_arena)

\* CallStack::push of the raw pointer to the closure (its arena entry and the
\* buffer the pointer leads into) and of the slot
CallStack_push(fs, closure, ptr, slot) ==
    Append(fs, [closure |-> closure, ptr |-> ptr, slot |-> slot, ip |-> 0, act |-> acts + 1])

\* VM::interpret up to the call of run(): the compiled script is wrapped in a
\* closure, stored in the arena, pushed, and its frame installed at slot 0.
Interpret ==
    /\ status \in {"idle", "ok", "error"}
    /\ runs < MaxRuns
    /\ \E p \in Programs :
       \E n \in 2..MaxN :
          /\ (p \notin WhileProgram \cup CounterProgram => n = 2)
          /\ program' = p
          /\ loop_n' = n
          /\ closure_arena' = Append(closure_arena, [func |-> p, upvalues |-> <<>>])
          /\ stack' = Append(stack, closure_handle(inserted_handle(Len(closure_arena) + 1)))
          /\ frames' = CallStack_push(frames, Len(closure_arena) + 1,
                                      closure_ptr(closure_arena'), 0)
    /\ runs' = runs + 1
    /\ acts' = acts + 1
    /\ status' = "running"
    /\ result' = Null
    /\ last_op' = "interpret"
    /\ UNCHANGED <<globals, earlier_closures, upvalue_arena, native_args, uv_log, uv_read,
                   compile_vars, parse_vars, arena_vars, chunk_vars>>

\* run() returned Err(RuntimeError): VM::interpret calls runtime_error, which
\* calls reset_stack; globals and both arenas are kept.
RuntimeError(msg) ==
    \/ /\ status' = "error"
       /\ result' = Str(msg)
       /\ stack' = <<>>
       /\ frames' = <<>>
    \/ \* runtime_error reads `&*frame.closure` of every frame: with a dangling
       \* frame that is undefined behaviour, and the process may end there
       /\ \E i \in DOMAIN frames : dangling(frames[i])
       /\ status' = "panic"
       /\ result' = Str(msg)
       /\ UNCHANGED <<stack, frames>>

\* a Rust panic (unwrap of None, index out of bounds, unreachable!): the process ends
Panic(msg) ==
    /\ status' = "panic"
    /\ result' = Str(msg)
    /\ UNCHANGED <<stack, frames>>

\* the step goes on inside run()
Continue(new_stack, new_frames) ==
    /\ stack' = new_stack
    /\ frames' = new_frames
    /\ UNCHANGED <<status, result>>

-----------------------------------------------------------------------------
(* Upvalues.  An arena entry is Open{idx} or Closed{value}; `var` is       *)
(* history: the frame activation and slot of the variable it captured.     *)

OpenUpvalue(slot, var) == [open |-> TRUE, idx |-> slot, value |-> Null, var |-> var]

\* WeaveUpvalue::close_with_value
close_with_value(uv, v) == [uv EXCEPT !.open = FALSE, !.idx = 0, !.value = v]

\* VM::add_local_upvalue: a new Open upvalue over the current frame's slot
\* `idx`, inserted into the arena; the result is the grown arena, whose last
\* handle is pushed onto the closure's upvalues.
add_local_upvalue(arena, idx) ==
    Append(arena, OpenUpvalue(cur_frame.slot + idx, <<cur_frame.act, cur_frame.slot + idx>>))

\* VM::close_upvalues that closes every Open upvalue, whatever its slot
close_upvalues_all_slots(arena, stk, last_slot) ==
    [h \in DOMAIN arena |->
        IF arena[h].open
        THEN IF arena[h].idx >= Len(stk)
             THEN arena[h]
             ELSE close_with_value(arena[h], stk[arena[h].idx + 1])
        ELSE arena[h]]

\* VM::close_upvalues(last_slot) on stack stk
close_upvalues(arena, stk, last_slot) ==
    [h \in DOMAIN arena |->
        IF arena[h].open /\ arena[h].idx >= last_slot
        THEN IF arena[h].idx >= Len(stk)
             THEN arena[h]      \* "Skip this upvalue - it's already invalid"
             ELSE close_with_value(arena[h], stk[arena[h].idx + 1])
        ELSE arena[h]]

\* the (is_local, index) pair number i (from 0) after a Closure instruction
upvalue_pair(i) == [is_local |-> byte_at(3 + 2 * i) = 1, idx |-> byte_at(4 + 2 * i)]

\* Op::Closure's loop over the pairs i..count-1: acc is [arena, upvalues, ok]
RECURSIVE capture_upvalues(_, _, _)
capture_upvalues(i, count, acc) ==
    IF i >= count THEN acc
    ELSE IF upvalue_pair(i).is_local
    THEN capture_upvalues(i + 1, count,
            [arena |-> add_local_upvalue(acc.arena, upvalue_pair(i).idx),
             upvalues |-> Append(acc.upvalues, Len(acc.arena) + 1),
             ok |-> acc.ok])
    ELSE \* VM::add_remote_upvalue: copy the handle from the current closure
         IF upvalue_pair(i).idx >= Len(cur_closure.upvalues)
         THEN [acc EXCEPT !.ok = FALSE]
         ELSE capture_upvalues(i + 1, count,
                [acc EXCEPT !.upvalues = Append(@, cur_closure.upvalues[upvalue_pair(i).idx + 1])])

-----------------------------------------------------------------------------
(* Host functions (native_fn.rs): what each may return *)

HostResults(name) ==
    IF name = "clock" THEN {Num(c) : c \in 0..MaxClock} ELSE {Null}

\* impl Display for NanBoxedValue, as ADD's string concatenation formats a value
Display(v) ==
    IF v.t = "num" THEN ToString(v.n)
    ELSE IF v.t = "bool" THEN (IF v.n = 1 THEN "true" ELSE "false")
    ELSE IF v.t = "null" THEN "null"
    ELSE IF v.t = "str" THEN v.s
    ELSE IF v.t = "closure"
         THEN "<closure handle " \o ToString(as_closure_handle(v).index) \o ":"
                  \o ToString(as_closure_handle(v).generation) \o ">"
    ELSE IF v.t = "native" THEN "<NativeFn pointer>"
    ELSE "<Closure pointer>"

-----------------------------------------------------------------------------
(* The dispatch loop of VM::run: one action per opcode *)

Keep == UNCHANGED <<program, loop_n, runs, earlier_closures, compile_vars, parse_vars,
                    arena_vars, chunk_vars>>

\* Op::RETURN that does not truncate the stack when the last frame returns
OpReturn_keeps_stack ==
    /\ Dispatch("RETURN")
    /\ LET value == pop_or_null(stack)
           popped == PopN(stack, 1)
           slot == cur_frame.slot
           rest == Truncate(popped, slot)
       IN /\ upvalue_arena' = close_upvalues(upvalue_arena, popped, slot)
          /\ IF Len(frames) = 1
             THEN /\ status' = "ok"
                  /\ result' = value
                  /\ stack' = popped
                  /\ frames' = <<>>
             ELSE Continue(Append(rest, value), SubSeq(frames, 1, Len(frames) - 1))
    /\ last_op' = "RETURN"
    /\ Keep
    /\ UNCHANGED <<globals, closure_arena, acts, native_args, uv_log, uv_read>>

OpReturn ==
    /\ Dispatch("RETURN")
    /\ LET value == pop_or_null(stack)
           popped == PopN(stack, 1)
           slot == cur_frame.slot
           rest == Truncate(popped, slot)
       IN /\ upvalue_arena' = close_upvalues(upvalue_arena, popped, slot)
          /\ IF Len(frames) = 1
             THEN /\ status' = "ok"
                  /\ result' = value
                  /\ stack' = rest
                  /\ frames' = <<>>
             ELSE Continue(Append(rest, value), SubSeq(frames, 1, Len(frames) - 1))
    /\ last_op' = "RETURN"
    /\ Keep
    /\ UNCHANGED <<globals, closure_arena, acts, native_args, uv_log, uv_read>>

OpPop ==
    /\ Dispatch("POP")
    /\ Continue(PopN(stack, 1), with_ip(ip_after(1)))
    /\ last_op' = "POP"
    /\ Keep
    /\ UNCHANGED <<globals, closure_arena, upvalue_arena, acts, native_args, uv_log, uv_read>>

OpConstant ==
    /\ Dispatch("CONSTANT")
    /\ Continue(Append(stack, cur_chunk.constants[operand_u16 + 1]), with_ip(ip_after(3)))
    /\ last_op' = "CONSTANT"
    /\ Keep
    /\ UNCHANGED <<globals, closure_arena, upvalue_arena, acts, native_args, uv_log, uv_read>>

OpClosure ==
    /\ Dispatch("Closure")
    /\ LET val == cur_chunk.constants[operand_u16 + 1]
           count == Functions[val.n].upvalue_count
           got == capture_upvalues(0, count,
                     [arena |-> upvalue_arena, upvalues |-> <<>>, ok |-> TRUE])
       IN IF val.t # "fnptr"
          THEN \* Err(CompilationError): interpret does not reset the stack
               /\ status' = "error"
               /\ result' = Str("Expected closure pointer")
               /\ UNCHANGED <<stack, frames, closure_arena, upvalue_arena>>
          ELSE IF ~got.ok
          THEN /\ Panic("Remote upvalue index out of bounds")
               /\ UNCHANGED <<closure_arena, upvalue_arena>>
          ELSE /\ upvalue_arena' = got.arena
               /\ closure_arena' =
                     Append(closure_arena, [func |-> val.n, upvalues |-> got.upvalues])
               /\ Continue(Append(stack, closure_handle(inserted_handle(Len(closure_arena) + 1))),
                           with_ip(ip_after(3 + 2 * count)))
    /\ last_op' = "Closure"
    /\ Keep
    /\ UNCHANGED <<globals, acts, native_args, uv_log, uv_read>>

\* Op::Call, NativeFn branch: the slice handed to the host function
native_slice(stk, arg_count) ==
    IF arg_count > 0
    THEN LET last_arg == Len(stk) - 1
             first_arg == last_arg - arg_count
         IN SubSeq(stk, first_arg + 1, last_arg)    \* &self.stack[first_arg..last_arg]
    ELSE <<>>

\* Op::Call, closure branch: `if self.call_stack.frames.len() > 100`
frames_overflow(fs) == Len(fs) > FrameLimit

OpCall ==
    /\ Dispatch("Call")
    /\ LET arg_count == byte_at(1)
           func_slot == (Len(stack) - 1) - arg_count
           callee == stack[func_slot + 1]
           closure == Arena_get(as_closure_handle(callee))
       IN IF func_slot < 0
          THEN /\ Panic("attempt to subtract with overflow")
               /\ UNCHANGED <<acts, native_args>>
          ELSE IF is_closure_handle(callee)
          THEN /\ IF closure = 0
                  THEN /\ Panic("unwrap on None")      \* closure_arena.get(..).unwrap()
                       /\ acts' = acts
                  ELSE IF Functions[closure_arena[closure].func].arity # arg_count
                  THEN /\ RuntimeError("Expected arguments")
                       /\ acts' = acts
                  ELSE IF frames_overflow(frames)
                  THEN /\ RuntimeError("Stack overflow")
                       /\ acts' = acts
                  ELSE /\ Continue(stack, CallStack_push(with_ip(ip_after(2)), closure,
                                                         closure_ptr(closure_arena), func_slot))
                       /\ acts' = acts + 1
               /\ UNCHANGED native_args
          ELSE IF callee.t = "native"
          THEN /\ \E r \in HostResults(callee.s) :
                     Continue(Append(PopN(stack, arg_count + 1), r), with_ip(ip_after(2)))
               /\ native_args' = [name |-> callee.s, args |-> native_slice(stack, arg_count)]
               /\ acts' = acts
          ELSE /\ RuntimeError("Only functions can be called")
               /\ UNCHANGED <<acts, native_args>>
    /\ last_op' = "Call"
    /\ Keep
    /\ UNCHANGED <<globals, closure_arena, upvalue_arena, uv_log, uv_read>>

\* Op::SetLocal on stack stk with the absolute slot: the stack it leaves
set_local(stk, slot) ==
    LET value == pop_or_null(stk)
        popped == PopN(stk, 1)
        grown == IF Len(popped) <= slot
                 THEN Resize(popped, Max(slot + 1, Len(popped) * 2))
                 ELSE popped
    IN [grown EXCEPT ![slot + 1] = value]

OpSetLocal ==
    /\ Dispatch("SetLocal")
    /\ LET slot == cur_frame.slot + byte_at(1)
       IN /\ Continue(set_local(stack, slot), with_ip(ip_after(2)))
          /\ uv_log' = IF uv_log.var = <<cur_frame.act, slot>>
                       THEN [uv_log EXCEPT !.val = pop_or_null(stack)]
                       ELSE uv_log
    /\ last_op' = "SetLocal"
    /\ Keep
    /\ UNCHANGED <<globals, closure_arena, upvalue_arena, acts, native_args, uv_read>>

\* Op::GetLocal on stack stk with the absolute slot: the stack it leaves
get_local(stk, slot) ==
    LET grown == IF Len(stk) <= slot
                 THEN Resize(stk, Max(slot + 1, Len(stk) * 2))
                 ELSE stk
    IN Append(grown, grown[slot + 1])

OpGetLocal ==
    /\ Dispatch("GetLocal")
    /\ Continue(get_local(stack, cur_frame.slot + byte_at(1)), with_ip(ip_after(2)))
    /\ last_op' = "GetLocal"
    /\ Keep
    /\ UNCHANGED <<globals, closure_arena, upvalue_arena, acts, native_args, uv_log, uv_read>>

OpGetUpvalue ==
    /\ Dispatch("GetUpvalue")
    /\ LET slot == byte_at(1)
           uv == upvalue_arena[cur_closure.upvalues[slot + 1]]
       IN IF slot >= Len(cur_closure.upvalues)
          THEN /\ Panic("GetUpvalue: slot out of bounds")
               /\ UNCHANGED uv_read
          ELSE IF uv.open /\ uv.idx >= Len(stack)
          THEN /\ Panic("index out of bounds")      \* VM::get_stack_value
               /\ UNCHANGED uv_read
          ELSE LET v == IF uv.open THEN stack[uv.idx + 1] ELSE uv.value
               IN /\ Continue(Append(stack, v), with_ip(ip_after(2)))
                  /\ uv_read' = [var |-> uv.var, val |-> v]
    /\ last_op' = "GetUpvalue"
    /\ Keep
    /\ UNCHANGED <<globals, closure_arena, upvalue_arena, acts, native_args, uv_log>>

\* Op::SetUpvalue whose write to a Closed upvalue is lost
OpSetUpvalue_closed_write_lost ==
    /\ Dispatch("SetUpvalue")
    /\ LET slot == byte_at(1)
           uv == upvalue_arena[cur_closure.upvalues[slot + 1]]
           v == Top(stack)
       IN IF stack = <<>> \/ slot >= Len(cur_closure.upvalues)
          THEN /\ Panic("index out of bounds")
               /\ UNCHANGED <<upvalue_arena, uv_log>>
          ELSE IF uv.open /\ uv.idx >= Len(stack)
          THEN /\ Panic("index out of bounds")
               /\ UNCHANGED <<upvalue_arena, uv_log>>
          ELSE /\ Continue(IF uv.open THEN [stack EXCEPT ![uv.idx + 1] = v] ELSE stack,
                           with_ip(ip_after(2)))
               /\ uv_log' = [var |-> uv.var, val |-> v]
               /\ UNCHANGED upvalue_arena
    /\ last_op' = "SetUpvalue"
    /\ Keep
    /\ UNCHANGED <<globals, closure_arena, acts, native_args, uv_read>>

OpSetUpvalue ==
    /\ Dispatch("SetUpvalue")
    /\ LET slot == byte_at(1)
           handle == cur_closure.upvalues[slot + 1]
           uv == upvalue_arena[handle]
           v == Top(stack)                          \* peek top of stack
       IN IF stack = <<>> \/ slot >= Len(cur_closure.upvalues)
          THEN /\ Panic("index out of bounds")
               /\ UNCHANGED <<upvalue_arena, uv_log>>
          ELSE IF uv.open
          THEN IF uv.idx >= Len(stack)
               THEN /\ Panic("index out of bounds")
                    /\ UNCHANGED <<upvalue_arena, uv_log>>
               ELSE /\ Continue([stack EXCEPT ![uv.idx + 1] = v], with_ip(ip_after(2)))
                    /\ uv_log' = [var |-> uv.var, val |-> v]
                    /\ UNCHANGED upvalue_arena
          ELSE /\ upvalue_arena' = [upvalue_arena EXCEPT ![handle] = close_with_value(@, v)]
               /\ Continue(stack, with_ip(ip_after(2)))
               /\ uv_log' = [var |-> uv.var, val |-> v]
    /\ last_op' = "SetUpvalue"
    /\ Keep
    /\ UNCHANGED <<globals, closure_arena, acts, native_args, uv_read>>

OpSetGlobal ==
    /\ Dispatch("SetGlobal")
    /\ IF Len(stack) < 2
       THEN /\ Panic("unwrap on None")
            /\ UNCHANGED globals
       ELSE LET name == Top(stack)
                val == stack[Len(stack) - 1]
            IN IF ~is_string(name)
               THEN /\ Panic("Only strings can become globals")
                    /\ UNCHANGED globals
               ELSE /\ globals' = [k \in DOMAIN globals \cup {name.s} |->
                                      IF k = name.s THEN val ELSE globals[k]]
                    /\ Continue(Append(PopN(stack, 2), val), with_ip(ip_after(1)))
    /\ last_op' = "SetGlobal"
    /\ Keep
    /\ UNCHANGED <<closure_arena, upvalue_arena, acts, native_args, uv_log, uv_read>>

OpGetGlobal_null_when_undefined ==
    /\ Dispatch("GetGlobal")
    /\ IF stack = <<>>
       THEN Panic("unwrap on None")
       ELSE LET name == Top(stack)
            IN IF ~is_string(name)
               THEN Panic("Expected an Identifier")
               ELSE Continue(Append(PopN(stack, 1),
                                    IF name.s \in DOMAIN globals THEN globals[name.s] ELSE Null),
                             with_ip(ip_after(1)))
    /\ last_op' = "GetGlobal"
    /\ Keep
    /\ UNCHANGED <<globals, closure_arena, upvalue_arena, acts, native_args, uv_log, uv_read>>

OpGetGlobal ==
    /\ Dispatch("GetGlobal")
    /\ IF stack = <<>>
       THEN Panic("unwrap on None")
       ELSE LET name == Top(stack)
            IN IF ~is_string(name)
               THEN Panic("Expected an Identifier")
               ELSE IF name.s \in DOMAIN globals
               THEN Continue(Append(PopN(stack, 1), globals[name.s]), with_ip(ip_after(1)))
               ELSE RuntimeError("Undefined global")
    /\ last_op' = "GetGlobal"
    /\ Keep
    /\ UNCHANGED <<globals, closure_arena, upvalue_arena, acts, native_args, uv_log, uv_read>>

\* a binary operator's operands: b is popped first, then a
operand_b(stk) == pop_or_null(stk)
operand_a(stk) == pop_or_null(PopN(stk, 1))

\* an arithmetic opcode with only the numeric fast path; fast is the fast
\* path's result on the two operands
Arith(op, fast, msg) ==
    /\ Dispatch(op)
    /\ LET a == operand_a(stack)
           b == operand_b(stack)
       IN IF is_number(a) /\ is_number(b)
          THEN Continue(Append(PopN(stack, 2), fast), with_ip(ip_after(1)))
          ELSE RuntimeError(msg)
    /\ last_op' = op
    /\ Keep
    /\ UNCHANGED <<globals, closure_arena, upvalue_arena, acts, native_args, uv_log, uv_read>>

\* a comparison opcode: operands that are not both numbers give false; fast
\* is the fast path's result on the two operands
Compare(op, fast) ==
    /\ Dispatch(op)
    /\ LET a == operand_a(stack)
           b == operand_b(stack)
       IN Continue(Append(PopN(stack, 2),
                          IF is_number(a) /\ is_number(b) THEN fast ELSE Bool(FALSE)),
                   with_ip(ip_after(1)))
    /\ last_op' = op
    /\ Keep
    /\ UNCHANGED <<globals, closure_arena, upvalue_arena, acts, native_args, uv_log, uv_read>>

\* an opcode that only changes the value stack and steps over itself
StackOp(op, new_stack) ==
    /\ Dispatch(op)
    /\ Continue(new_stack, with_ip(ip_after(1)))
    /\ last_op' = op
    /\ Keep
    /\ UNCHANGED <<globals, closure_arena, upvalue_arena, acts, native_args, uv_log, uv_read>>

OpNegate ==
    /\ Dispatch("NEGATE")
    /\ LET v == pop_or_null(stack)
       IN IF is_number(v)
          THEN Continue(Append(PopN(stack, 1), Num(0 - v.n)), with_ip(ip_after(1)))
          ELSE RuntimeError("Can only negate numbers")
    /\ last_op' = "NEGATE"
    /\ Keep
    /\ UNCHANGED <<globals, closure_arena, upvalue_arena, acts, native_args, uv_log, uv_read>>

OpAdd ==
    /\ Dispatch("ADD")
    /\ LET a == operand_a(stack)
           b == operand_b(stack)
       IN IF is_number(a) /\ is_number(b)
          THEN Continue(Append(PopN(stack, 2), fast_add(a, b)), with_ip(ip_after(1)))
          ELSE IF is_string(a) \/ is_string(b)
          THEN Continue(Append(PopN(stack, 2), Str(Display(a) \o Display(b))),
                        with_ip(ip_after(1)))
          ELSE RuntimeError("Cannot add")
    /\ last_op' = "ADD"
    /\ Keep
    /\ UNCHANGED <<globals, closure_arena, upvalue_arena, acts, native_args, uv_log, uv_read>>

OpSub == Arith("SUB", fast_sub(operand_a(stack), operand_b(stack)), "Cannot subtract")
OpMul == Arith("MUL", fast_mul(operand_a(stack), operand_b(stack)), "Cannot multiply")
OpDiv == Arith("DIV", fast_div(operand_a(stack), operand_b(stack)), "Cannot divide")
OpTrue == StackOp("TRUE", Append(stack, Bool(TRUE)))
OpFalse == StackOp("FALSE", Append(stack, Bool(FALSE)))
OpNot == StackOp("NOT", Append(PopN(stack, 1), Bool(~is_truthy(pop_or_null(stack)))))
OpGreater == Compare("GREATER", fast_greater(operand_a(stack), operand_b(stack)))
OpLess == Compare("LESS", fast_less(operand_a(stack), operand_b(stack)))
OpEqual == StackOp("EQUAL", Append(PopN(stack, 2),
                                   fast_equal(operand_a(stack), operand_b(stack))))
\* the printed value stays on the stack
OpPrint == StackOp("PRINT", stack)

OpJump ==
    /\ Dispatch("Jump")
    /\ Continue(stack, with_ip(ip_after(3) + operand_u16))
    /\ last_op' = "Jump"
    /\ Keep
    /\ UNCHANGED <<globals, closure_arena, upvalue_arena, acts, native_args, uv_log, uv_read>>

OpJumpIfFalse ==
    /\ Dispatch("JumpIfFalse")
    /\ Continue(PopN(stack, 1),
                with_ip(IF is_truthy(pop_or_null(stack))
                        THEN ip_after(3) ELSE ip_after(3) + operand_u16))
    /\ last_op' = "JumpIfFalse"
    /\ Keep
    /\ UNCHANGED <<globals, closure_arena, upvalue_arena, acts, native_args, uv_log, uv_read>>

OpLoop ==
    /\ Dispatch("Loop")
    /\ IF operand_u16 > ip_after(3)
       THEN Panic("attempt to subtract with overflow")      \* IP::jump_back
       ELSE Continue(stack, with_ip(ip_after(3) - operand_u16))
    /\ last_op' = "Loop"
    /\ Keep
    /\ UNCHANGED <<globals, closure_arena, upvalue_arena, acts, native_args, uv_log, uv_read>>

-----------------------------------------------------------------------------

\* `unsafe { &*frame.closure }` of a dangling frame.  The instructions
\* that read through it are CONSTANT and Closure (CallStack::get_constant),
\* GetUpvalue and SetUpvalue (closure.upvalues).  The read is undefined
\* behaviour: it may find the old bytes, and the instruction's own action
\* then acts as if the pointer were valid, or it may not, and the process ends.
DanglingClosure ==
    /\ status = "running"
    /\ frames # <<>>
    /\ cur_frame.ip < Len(cur_chunk.code)
    /\ next_op \in {"CONSTANT", "Closure", "GetUpvalue", "SetUpvalue"}
    /\ dangling(cur_frame)
    /\ Panic("read through a dangling closure pointer")
    /\ last_op' = next_op
    /\ Keep
    /\ UNCHANGED <<globals, closure_arena, upvalue_arena, acts, native_args, uv_log, uv_read>>

Next ==
    \/ Interpret
    \/ DanglingClosure
    \/ OpReturn \/ OpPop \/ OpConstant \/ OpClosure \/ OpCall
    \/ OpSetLocal \/ OpGetLocal \/ OpGetUpvalue \/ OpSetUpvalue
    \/ OpSetGlobal \/ OpGetGlobal
    \/ OpNegate \/ OpAdd \/ OpSub \/ OpMul \/ OpDiv
    \/ OpTrue \/ OpFalse \/ OpNot \/ OpGreater \/ OpLess \/ OpEqual
    \/ OpPrint \/ OpJump \/ OpJumpIfFalse \/ OpLoop

Spec == Init /\ [][Next]_vars

-----------------------------------------------------------------------------
(* Compiler::compile (compiler/compiler.rs): the statements that declare    *)
(* and resolve names, one action per variable or function compiled.  The    *)
(* source is any sequence of reads, assignments, function statements and    *)
(* lambdas within the bounds; the right-hand side of an assignment and the  *)
(* operands of an expression are compiled by the steps before it.           *)

vm_vars == <<stack, frames, globals, closure_arena, earlier_closures, upvalue_arena, status,
             result, program, loop_n, runs, acts, last_op, native_args, uv_log, uv_read>>

cur_compiler == compilers[Len(compilers)]
parent_compiler == compilers[Len(compilers) - 1]
replace_cur(c) == [compilers EXCEPT ![Len(compilers)] = c]

\* history: the variable a name denotes in a function at `depth`: the one of
\* that name declared by the nearest enclosing function
var_of(st, depth, identifier) ==
    LET holders == {d \in 0..(depth - 1) : named(st[d + 1].locals, identifier) # {}}
    IN IF holders = {} THEN <<0 - 1, identifier>> ELSE <<greatest(holders), identifier>>

referred(c, identifier, idx) ==
    [c EXCEPT !.refs = @ \cup {[var |-> var_of(scope_stack, c.depth, identifier), idx |-> idx]}]

\* Compiler::variable_get by compiler c: the scope stack, c and the emission afterwards
variable_get(c, identifier) ==
    LET idx == Scope_resolve_local(scope_stack, c.depth, identifier)
        upval == recursive_resolve_upvalue(scope_stack, identifier, c.depth)
    IN IF idx >= 0
       THEN [stack |-> scope_stack, compiler |-> c,
             emit |-> Emit("GetLocal", as_u8(idx), identifier, c.depth, <<>>)]
       ELSE IF upval.found
       THEN [stack |-> upval.stack, compiler |-> referred(c, identifier, upval.upvalue.idx),
             emit |-> Emit("GetUpvalue", upval.upvalue.idx, identifier, c.depth, <<>>)]
       ELSE [stack |-> scope_stack, compiler |-> c,
             emit |-> Emit("GetGlobal", 0, identifier, c.depth, <<>>)]

\* set_named_variable that takes the scope of a top-level function for the global scope
set_named_variable_depth_1_global(c, identifier) ==
    LET idx == Scope_resolve_local(scope_stack, c.depth, identifier)
        upval == recursive_resolve_upvalue(scope_stack, identifier, c.depth)
        local_id == declare_local(scope_stack, c.depth, identifier)
    IN IF c.depth > 1
       THEN IF idx >= 0
            THEN [stack |-> scope_stack, compiler |-> c,
                  emit |-> Emit("SetLocal", as_u8(idx), identifier, c.depth, <<>>)]
            ELSE IF upval.found
            THEN [stack |-> upval.stack,
                  compiler |-> [referred(c, identifier, upval.upvalue.idx)
                                   EXCEPT !.upvalue_count = as_u8(@ + 1)],
                  emit |-> Emit("SetUpvalue", upval.upvalue.idx, identifier, c.depth, <<>>)]
            ELSE [stack |-> local_id.stack, compiler |-> c,
                  emit |-> Emit("SetLocal", as_u8(local_id.slot), identifier, c.depth, <<>>)]
       ELSE [stack |-> scope_stack, compiler |-> c,
             emit |-> Emit("SetGlobal", 0, identifier, c.depth, <<>>)]

\* Compiler::set_named_variable by compiler c
set_named_variable(c, identifier) ==
    LET idx == Scope_resolve_local(scope_stack, c.depth, identifier)
        upval == recursive_resolve_upvalue(scope_stack, identifier, c.depth)
        local_id == declare_local(scope_stack, c.depth, identifier)
    IN IF c.depth > 0
       THEN IF idx >= 0
            THEN [stack |-> scope_stack, compiler |-> c,
                  emit |-> Emit("SetLocal", as_u8(idx), identifier, c.depth, <<>>)]
            ELSE IF upval.found
            THEN [stack |-> upval.stack,
                  compiler |-> [referred(c, identifier, upval.upvalue.idx)
                                   EXCEPT !.upvalue_count = as_u8(@ + 1)],
                  emit |-> Emit("SetUpvalue", upval.upvalue.idx, identifier, c.depth, <<>>)]
            ELSE [stack |-> local_id.stack, compiler |-> c,
                  emit |-> Emit("SetLocal", as_u8(local_id.slot), identifier, c.depth, <<>>)]
       ELSE [stack |-> scope_stack, compiler |-> c,
             emit |-> Emit("SetGlobal", 0, identifier, c.depth, <<>>)]

\* Compiler::emit_closure by the parent for the function compiled by c: `arg`
\* is the upvalue_count stored in the function; the Closure instruction is
\* followed by the bytes of each upvalue of c's scope
emit_closure(c) ==
    LET upvals == scope_stack[c.depth + 1].upvalues
    IN Emit("Closure", as_u8(Len(upvals)), c.name, c.depth - 1,
            [i \in 1..(2 * Len(upvals)) |->
                Upvalue_to_bytes(upvals[(i + 1) \div 2])[IF i % 2 = 1 THEN 1 ELSE 2]])

\* Compiler::variable without a following `=`
VariableGet ==
    /\ tokens < MaxTokens
    /\ \E identifier \in Names :
          LET r == variable_get(cur_compiler, identifier)
          IN /\ scope_stack' = r.stack
             /\ compilers' = replace_cur(r.compiler)
             /\ emitted' = <<r.emit>>
    /\ tokens' = tokens + 1
    /\ UNCHANGED fns
    /\ UNCHANGED <<vm_vars, parse_vars, arena_vars, chunk_vars>>

\* Compiler::variable_set, after its expression
VariableSet ==
    /\ tokens < MaxTokens
    /\ \E identifier \in Names :
          LET r == set_named_variable(cur_compiler, identifier)
          IN /\ scope_stack' = r.stack
             /\ compilers' = replace_cur(r.compiler)
             /\ emitted' = <<r.emit>>
    /\ tokens' = tokens + 1
    /\ UNCHANGED fns
    /\ UNCHANGED <<vm_vars, parse_vars, arena_vars, chunk_vars>>

\* the parameter lists a function is declared with
ParamLists == UNION {[1..n -> Names] : n \in 0..MaxArity}

\* Compiler::function_params: the scope stack after the parameters are
\* declared, and the slot add_local returned for each
RECURSIVE function_params(_, _, _)
function_params(st, depth, params) ==
    IF params = <<>> THEN [stack |-> st, slots |-> <<>>]
    ELSE LET local_id == declare_local(st, depth, Head(params))
             rest == function_params(local_id.stack, depth, Tail(params))
         IN [stack |-> rest.stack, slots |-> <<local_id.slot>> \o rest.slots]

\* Compiler::function_statement and Compiler::lambda up to the body:
\* enter_function_scope, new_func_compiler, the child's begin_scope, whose
\* enter_scope pushes an InnerScope and drops the Scope it returns, and the
\* child's function_params
begin_function(name, kind) ==
    /\ Len(compilers) <= MaxDepth
    /\ fns < MaxFns
    /\ \E params \in ParamLists :
          LET child == Compiler(name, kind, cur_compiler.depth + 1)
              declared == function_params(
                              incr(enter_function_scope(scope_stack, cur_compiler.depth)),
                              child.depth, params)
          IN /\ scope_stack' = declared.stack
             /\ compilers' = Append(compilers, [child EXCEPT !.arity = Len(params)])
             /\ emitted' = [k \in 1..Len(params) |->
                               Emit("param", declared.slots[k], params[k], child.depth, <<>>)]
    /\ fns' = fns + 1
    /\ UNCHANGED tokens
    /\ UNCHANGED <<vm_vars, parse_vars, arena_vars, chunk_vars>>

FunctionStatementBegin == \E fn_name \in FnNames : begin_function(fn_name, "fn")

LambdaBegin == begin_function("<lambda>", "lambda")

\* the closing brace of a function statement: the child emits its implicit
\* RETURN; the parent emits the closure, assigns it to the function's name
\* and exits the scope
FunctionStatementEnd ==
    /\ Len(compilers) > 1
    /\ cur_compiler.kind = "fn"
    /\ LET r == set_named_variable(parent_compiler, cur_compiler.name)
       IN /\ scope_stack' = pop_scope(r.stack)
          /\ compilers' = [SubSeq(compilers, 1, Len(compilers) - 1)
                              EXCEPT ![Len(compilers) - 1] = r.compiler]
          /\ emitted' = <<Emit("RETURN", 0, "", cur_compiler.depth, <<>>),
                          emit_closure(cur_compiler), r.emit>>
    /\ UNCHANGED <<tokens, fns>>
    /\ UNCHANGED <<vm_vars, parse_vars, arena_vars, chunk_vars>>

\* the closing brace of a lambda
LambdaEnd ==
    /\ Len(compilers) > 1
    /\ cur_compiler.kind = "lambda"
    /\ scope_stack' = pop_scope(scope_stack)
    /\ compilers' = SubSeq(compilers, 1, Len(compilers) - 1)
    /\ emitted' = <<Emit("RETURN", 0, "", cur_compiler.depth, <<>>), emit_closure(cur_compiler)>>
    /\ UNCHANGED <<tokens, fns>>
    /\ UNCHANGED <<vm_vars, parse_vars, arena_vars, chunk_vars>>

CompileNext ==
    \/ VariableGet \/ VariableSet
    \/ FunctionStatementBegin \/ FunctionStatementEnd
    \/ LambdaBegin \/ LambdaEnd

\* Compiler::new on a source, with the VM at rest
CompileInit == Init /\ earlier_closures = 0

CompileSpec == CompileInit /\ [][CompileNext]_vars

-----------------------------------------------------------------------------
(* Compiler::compile on the sources                                         *)
(*     ^() { v1 = 0  ...  vK = 0   ^() { v1  ...  vN } }                    *)
(* with N <= K <= MaxLocals: a function that declares K locals and a        *)
(* function nested in it that reads the first N of them.                    *)

MaxLocals == U8     \* locals of the outer function: one more than a u8 slot can number
Var(k) == "v" \o ToString(k)

\* the locals the outer function has declared so far
outer_locals == Len(scope_stack[2].locals) - 1

\* `^() {`: the outer lambda, then the inner one
WideBegin ==
    /\ fns = Len(compilers) - 1
    /\ Len(compilers) <= 2
    /\ LambdaBegin
    /\ compilers'[Len(compilers')].arity = 0

\* `vK = 0` in the outer function, before the inner function begins
WideAssign ==
    /\ Len(compilers) = 2
    /\ fns = 1
    /\ outer_locals < MaxLocals
    /\ LET r == set_named_variable(cur_compiler, Var(outer_locals + 1))
       IN /\ scope_stack' = r.stack
          /\ compilers' = replace_cur(r.compiler)
          /\ emitted' = <<r.emit>>
    /\ tokens' = tokens + 1
    /\ UNCHANGED fns
    /\ UNCHANGED <<vm_vars, parse_vars, arena_vars, chunk_vars>>

\* `vN` in the inner function
WideRead ==
    /\ Len(compilers) = 3
    /\ Cardinality(cur_compiler.refs) < outer_locals
    /\ LET r == variable_get(cur_compiler, Var(Cardinality(cur_compiler.refs) + 1))
       IN /\ scope_stack' = r.stack
          /\ compilers' = replace_cur(r.compiler)
          /\ emitted' = <<r.emit>>
    /\ tokens' = tokens + 1
    /\ UNCHANGED fns
    /\ UNCHANGED <<vm_vars, parse_vars, arena_vars, chunk_vars>>

WideNext == WideBegin \/ WideAssign \/ WideRead \/ LambdaEnd

WideSpec == CompileInit /\ [][WideNext]_vars

-----------------------------------------------------------------------------
(* Compiler::compile as a function of its source. The sources are every     *)
(* sequence of at most MaxBodyLen tokens of BodyTokens, alone or placed in  *)
(* the body of a function statement, in the body of a lambda, after a       *)
(* binary operator, or between the parentheses of a call.                   *)

MaxBodyLen == 4

BodyTokens == {"Identifier", "Plus", "Equal", "LeftParen", "RightParen", "Return", "Semicolon"}

Bodies == UNION {[1..n -> BodyTokens] : n \in 0..MaxBodyLen}

opening(frame) ==
    CASE frame = "function" -> <<"FN", "Identifier", "LeftParen", "RightParen", "LeftBrace">>
      [] frame = "lambda" -> <<"Caret", "LeftParen", "RightParen", "LeftBrace">>
      [] OTHER -> <<>>

framed(frame, body) ==
    CASE frame \in {"function", "lambda"} -> opening(frame) \o body \o <<"RightBrace">>
      [] frame = "operand" -> <<"Identifier", "Plus">> \o body
      [] frame = "argument" -> <<"Identifier", "LeftParen">> \o body \o <<"RightParen">>
      [] frame = "unnamed" -> <<"FN">> \o body
      [] OTHER -> body

Sources ==
    {framed(frame, body) : frame \in {"script", "function", "lambda", "operand", "argument",
                                      "unnamed"},
                           body \in Bodies}

ParseInit == VM_new /\ earlier_closures = 0 /\ source \in Sources

CompileSource ==
    /\ outcome = NotCompiled
    /\ outcome' = compile(source)
    /\ UNCHANGED <<vm_vars, compile_vars, source, arena_vars, chunk_vars>>

ParseNext == CompileSource

ParseSpec == ParseInit /\ [][ParseNext]_vars

-----------------------------------------------------------------------------
(* An Arena and the calls of its owner: insert of any object, remove with   *)
(* any handle insert has returned, clear.                                   *)

MaxInserts == 4

ArenaInsert ==
    /\ Cardinality(handles) < MaxInserts
    /\ \E object \in Objects :
          LET r == Arena_insert(an_arena, object)
          IN /\ an_arena' = r.arena
             /\ handles' = handles \cup {r.handle}
             /\ returned' = [kind |-> "handle", handle |-> r.handle,
                             reused |-> an_arena.free_list # <<>>]
    /\ UNCHANGED <<removed, cleared>>
    /\ UNCHANGED <<vm_vars, compile_vars, parse_vars, chunk_vars>>

ArenaRemove ==
    /\ \E handle \in handles :
          LET r == Arena_remove(an_arena, handle)
          IN /\ an_arena' = r.arena
             /\ removed' = IF r.object # None THEN removed \cup {handle} ELSE removed
             /\ returned' = [kind |-> "object", object |-> r.object]
    /\ UNCHANGED <<handles, cleared>>
    /\ UNCHANGED <<vm_vars, compile_vars, parse_vars, chunk_vars>>

ArenaClear ==
    /\ an_arena' = Arena_new
    /\ cleared' = handles
    /\ returned' = Nothing
    /\ UNCHANGED <<handles, removed>>
    /\ UNCHANGED <<vm_vars, compile_vars, parse_vars, chunk_vars>>

ArenaNext == ArenaInsert \/ ArenaRemove \/ ArenaClear

ArenaInit == Init /\ earlier_closures = 0

ArenaSpec == ArenaInit /\ [][ArenaNext]_vars

-----------------------------------------------------------------------------
(* The Compiler writing one chunk: number literals, reads of globals and    *)
(* while statements, on the lines of the source.                            *)

MaxCode == 14       \* bytes of code
MaxLine == 3        \* lines of the source
MaxWhiles == 2      \* while statements open at once

GlobalNames == {"a", "b"}

\* the lines of the bytes a step has appended
lines_written(chunk) ==
    written \o [i \in 1..(Len(chunk.code) - Len(the_chunk.code)) |-> cur_line]

compiling == ~panicked /\ Len(the_chunk.code) < MaxCode

\* Compiler::advance reading a token of a later line: self.line = token.line
AdvanceLine ==
    /\ ~panicked
    /\ \E token_line \in (cur_line + 1)..MaxLine : cur_line' = token_line
    /\ UNCHANGED <<the_chunk, written, handed, heap, whiles, loops, panicked>>
    /\ UNCHANGED <<vm_vars, compile_vars, parse_vars, arena_vars>>

\* Compiler::number, emit_number
EmitNumber ==
    /\ compiling
    /\ \E v \in 1..2 :
          LET r == emit_constant(the_chunk, Num(v), cur_line)
          IN /\ the_chunk' = r.chunk
             /\ written' = lines_written(r.chunk)
             /\ handed' = handed \cup {<<r.idx, Num(v)>>}
    /\ UNCHANGED <<cur_line, heap, whiles, loops, panicked>>
    /\ UNCHANGED <<vm_vars, compile_vars, parse_vars, arena_vars>>

\* Compiler::variable_get of an identifier that is neither a local nor an
\* upvalue: the name and GetGlobal. The name is a pointer to a WeaveString
\* boxed by this call; n is its address, which no other allocation has.
VariableGetGlobal ==
    /\ compiling
    /\ \E identifier \in GlobalNames :
          LET value == [Str(identifier) EXCEPT !.n = heap]     \* NanBoxedValue::string
              r == emit_constant(the_chunk, value, cur_line)
              chunk == emit_opcode(r.chunk, "GetGlobal", <<>>, cur_line)
          IN /\ the_chunk' = chunk
             /\ written' = lines_written(chunk)
             /\ handed' = handed \cup {<<r.idx, value>>}
    /\ heap' = heap + 1
    /\ UNCHANGED <<cur_line, whiles, loops, panicked>>
    /\ UNCHANGED <<vm_vars, compile_vars, parse_vars, arena_vars>>

\* Compiler::while_statement up to its condition: loop_start = code.len() - 1.
\* On an empty chunk the subtraction overflows: the build with overflow checks
\* panics, the build without them wraps to usize::MAX.
WhileStatementBegin ==
    /\ compiling
    /\ Len(whiles) < MaxWhiles
    /\ \/ /\ Len(the_chunk.code) = 0
          /\ panicked' = TRUE
          /\ UNCHANGED whiles
       \/ /\ whiles' = Append(whiles, [loop_start |-> Len(the_chunk.code) - 1,
                                       condition |-> Len(the_chunk.code),
                                       exit_jump |-> 0 - 1])
          /\ UNCHANGED panicked
    /\ UNCHANGED <<the_chunk, cur_line, written, handed, heap, loops>>
    /\ UNCHANGED <<vm_vars, compile_vars, parse_vars, arena_vars>>

\* Compiler::while_statement after its condition: emit_jump(Op::JumpIfFalse)
WhileStatementBody ==
    /\ compiling
    /\ whiles # <<>>
    /\ whiles[Len(whiles)].exit_jump < 0
    /\ Len(the_chunk.code) > whiles[Len(whiles)].condition
    /\ LET r == emit_jump(the_chunk, "JumpIfFalse", cur_line)
       IN /\ the_chunk' = r.chunk
          /\ written' = lines_written(r.chunk)
          /\ whiles' = [whiles EXCEPT ![Len(whiles)].exit_jump = r.at]
    /\ UNCHANGED <<cur_line, handed, heap, loops, panicked>>
    /\ UNCHANGED <<vm_vars, compile_vars, parse_vars, arena_vars>>

\* Compiler::while_statement after its block: POP, emit_loop(loop_start),
\* patch_jump(exit_jump). History: where the Loop was written and where the
\* condition of its statement starts.
WhileStatementEnd ==
    /\ ~panicked
    /\ whiles # <<>>
    /\ whiles[Len(whiles)].exit_jump >= 0
    /\ LET w == whiles[Len(whiles)]
           popped == emit_opcode(the_chunk, "POP", <<>>, cur_line)
           looped == emit_loop(popped, w.loop_start, cur_line)
           chunk == patch_jump(looped, w.exit_jump)
       IN /\ the_chunk' = chunk
          /\ written' = lines_written(chunk)
          /\ loops' = loops \cup {[at |-> Len(popped.code), condition |-> w.condition]}
    /\ whiles' = SubSeq(whiles, 1, Len(whiles) - 1)
    /\ UNCHANGED <<cur_line, handed, heap, panicked>>
    /\ UNCHANGED <<vm_vars, compile_vars, parse_vars, arena_vars>>

ChunkNext ==
    \/ AdvanceLine \/ EmitNumber \/ VariableGetGlobal
    \/ WhileStatementBegin \/ WhileStatementBody \/ WhileStatementEnd

ChunkInit == Init /\ earlier_closures = 0

ChunkSpec == ChunkInit /\ [][ChunkNext]_vars

-----------------------------------------------------------------------------
(* Reading a CALL before it executes *)

\* Op::Call: arg_count, func_slot and the callee value
call_arg_count == byte_at(1)
call_func_slot == (Len(stack) - 1) - call_arg_count
\* the next instruction is a CALL whose callee is a host function
native_call ==
    /\ Dispatch("Call")
    /\ call_func_slot >= 0
    /\ stack[call_func_slot + 1].t = "native"

\* the Open upvalues of the arena
open_upvalues == {h \in DOMAIN upvalue_arena : upvalue_arena[h].open}

-----------------------------------------------------------------------------
(* Properties *)

\* C1: two closures that captured the same local see each other's writes: a
\* GET_UPVALUE of a variable yields the value last written to that variable
\* by SET_UPVALUE through any closure, while the defining frame is active and
\* after it has returned.
C1_SiblingsSeeWrites ==
    (status = "running" /\ last_op = "GetUpvalue" /\ uv_read.var = uv_log.var)
        => uv_read.val = uv_log.val

\* C2: after a RETURN no Open upvalue refers to a stack slot at or above the
\* popped frame's return_slot: RETURN closed every such upvalue.
C2_ReturnClosesUpvalues ==
    [][Dispatch("RETURN") =>
          \A h \in DOMAIN upvalue_arena' :
              upvalue_arena'[h].open => upvalue_arena'[h].idx < cur_frame.slot]_vars

\* C3: after every instruction at most 100 call frames are active (a CALL
\* issued with 100 frames active raises "Stack overflow" and pushes none).
C3_AtMost100Frames == Len(frames) <= 100

\* C4: for every N >= 2, a call of the function with body
\* `a = 1; while a < N { a = a + 1 } a` returns the number N.
C4_WhileReturnsN ==
    (status = "ok" /\ program \in WhileProgram) => result = Num(loop_n)

\* C5: SET_LOCAL leaves the assigned value on top of the stack: the stack is
\* not shorter after it than before it, its top is the assigned value, and
\* slot return_slot + operand holds that value.
C5_SetLocalKeepsValue ==
    [][Dispatch("SetLocal") =>
          /\ Len(stack') >= Len(stack)
          /\ Top(stack') = pop_or_null(stack)
          /\ stack'[cur_frame.slot + byte_at(1) + 1] = pop_or_null(stack)]_vars

\* C6: between instructions the value stack is never shorter than the current
\* frame's return_slot.
C6_StackCoversFrame ==
    (status = "running" /\ frames # <<>>) => Len(stack) >= cur_frame.slot

\* C7: a completed call replaces the callee value and its arguments by exactly
\* one result: after the RETURN of a called closure, and after a native call,
\* the stack length is the callee's slot + 1 and that slot holds the result.
C7_CallLeavesOneResult ==
    [][/\ (Dispatch("RETURN") /\ Len(frames) > 1) =>
             /\ Len(stack') = cur_frame.slot + 1
             /\ stack'[cur_frame.slot + 1] = pop_or_null(stack)
       /\ native_call =>
             /\ Len(stack') = call_func_slot + 1
             /\ stack'[call_func_slot + 1] \in HostResults(stack[call_func_slot + 1].s)]_vars

\* C8: on CALL argc of a native function the host function receives exactly
\* the top argc stack entries a1..an in order, and never the function value.
C8_NativeReceivesArguments ==
    [][native_call =>
          native_args'.args =
              SubSeq(stack, Len(stack) - call_arg_count + 1, Len(stack))]_vars

\* C9: at any time at most one Open upvalue exists per stack slot.
C9_OneOpenUpvaluePerSlot ==
    \A h1, h2 \in open_upvalues :
        upvalue_arena[h1].idx = upvalue_arena[h2].idx => h1 = h2

\* C10: between instructions every Open upvalue captures a stack slot smaller
\* than the current stack length.
C10_OpenUpvalueOnStack ==
    status = "running" => \A h \in open_upvalues : upvalue_arena[h].idx < Len(stack)

-----------------------------------------------------------------------------
(* Closures keep state between calls *)

\* the script of the counter program is back in its own frame after a call returned
counter_script_resumed ==
    /\ program \in CounterProgram
    /\ status = "running"
    /\ Len(frames) = 1
    /\ last_op = "RETURN"

\* C11: the k-th call of the closure returned by make_counter returns k.  The
\* script leaves each call's result on its stack above `c` (slot 2), so after
\* any call has returned the results so far are 1, 2, ..., in call order, and
\* the program's value is the number of calls it made.
C11_CounterReturnsK ==
    /\ counter_script_resumed =>
          \A k \in 1..(Len(stack) - 3) : stack[3 + k] = Num(k)
    /\ (program \in CounterProgram /\ status = "ok") => result = Num(loop_n)

\* the third call of the counter has returned, through a Closed upvalue
C11_ThirdCallReturned ==
    /\ counter_script_resumed
    /\ Len(stack) = 6
    /\ stack[6] = Num(3)
    /\ \E h \in DOMAIN upvalue_arena : ~upvalue_arena[h].open /\ upvalue_arena[h].value = Num(3)

\* the Open upvalues over variables of the current frame's activation
captured_by_cur_frame ==
    {h \in open_upvalues : upvalue_arena[h].var[1] = cur_frame.act}

\* C12: when a frame returns, each of its captured variables is closed holding
\* the value its stack slot had at that moment (so the first GET_UPVALUE after
\* the return yields the last value the local had before RETURN).
C12_ReturnClosesWithSlotValue ==
    [][Dispatch("RETURN") =>
          \A h \in captured_by_cur_frame :
             /\ upvalue_arena[h].idx < Len(stack)
             /\ ~upvalue_arena'[h].open
             /\ upvalue_arena'[h].value = stack[upvalue_arena[h].idx + 1]]_vars

-----------------------------------------------------------------------------
(* Call frames and the closure arena *)

\* C13: the closure a call frame refers to stays valid from the frame's push
\* until its pop, however many closures are inserted into the closure arena
\* in the meantime, also when an insert makes the arena's storage grow: no
\* frame on the call stack holds a pointer into a buffer the arena has left.
C13_FrameClosureStaysValid ==
    \A i \in DOMAIN frames : ~dangling(frames[i])

\* C14: packing a closure-arena handle into a ClosureHandle value and unpacking
\* it again returns the same (index, generation), for every handle the arena
\* has issued, so that CALL on the value finds the closure it was created for.
C14_HandleRoundTrip ==
    \A i \in DOMAIN closure_arena :
       /\ as_closure_handle(closure_handle(inserted_handle(i))) = inserted_handle(i)
       /\ Arena_get(as_closure_handle(closure_handle(inserted_handle(i)))) = i

-----------------------------------------------------------------------------
(* Errors and the reuse of a VM *)

\* the msg of every VMError::RuntimeError run() returns
RuntimeErrorMessages ==
    {"Expected arguments", "Stack overflow", "Only functions can be called",
     "Undefined global", "Can only negate numbers", "Cannot add", "Cannot subtract",
     "Cannot multiply", "Cannot divide"}

\* the step in which run() stops with a RuntimeError and interpret handles it
run_stops_with_RuntimeError ==
    /\ status = "running"
    /\ status' # "running"
    /\ result' \in {Str(msg) : msg \in RuntimeErrorMessages}

later_interpret == runs >= 1 /\ runs' = runs + 1

\* C16: after interpret returns successfully the value stack and the call-frame
\* stack are empty, so in a later interpret call on the same VM the script
\* closure sits at stack index 0, the slot its top-level frame is installed with.
C16_SuccessLeavesStacksEmpty ==
    [][/\ status' = "ok" => (stack' = <<>> /\ frames' = <<>>)
       /\ (status = "ok" /\ later_interpret) =>
             /\ Len(frames') = 1
             /\ frames'[1].slot = 0
             /\ Len(stack') = 1
             /\ stack'[1] = closure_handle(inserted_handle(frames'[1].closure))]_vars

\* the second interpret of a VM has begun after program 14, which returns a
\* value, and its script closure is the only value on the stack
C16_SecondInterpretBegun ==
    /\ runs = 2
    /\ last_op = "interpret"
    /\ closure_arena[1].func = 14
    /\ Len(stack) = 1
    /\ is_closure_handle(stack[1])

\* run()'s loop ends only through RETURN: no frame's ip runs off its code
RunEndsByReturn ==
    status = "running" => (frames # <<>> /\ cur_frame.ip < Len(cur_chunk.code))

-----------------------------------------------------------------------------
(* Calls *)

\* the value CALL finds in the callee's slot
call_callee == stack[call_func_slot + 1]

\* the arena entry a ClosureHandle value was created for (closure_handle keeps
\* all the bits of the handle's index)
created_for(v) == v.n - earlier_closures + 1

\* CALL is about to run on a callee that is neither a closure nor a native
\* function, or on a closure whose arity differs from argc
bad_call ==
    /\ Dispatch("Call")
    /\ call_func_slot >= 0
    /\ \/ call_callee.t \notin {"closure", "native"}
       \/ /\ is_closure_handle(call_callee)
          /\ Functions[closure_arena[created_for(call_callee)].func].arity # call_arg_count

\* C17: a CALL whose callee value is neither a closure nor a native function,
\* or is a closure whose arity differs from argc, raises a RuntimeError and
\* pushes no call frame.
C17_BadCallRaisesRuntimeError ==
    [][bad_call =>
          /\ status' = "error"
          /\ result' \in {Str(msg) : msg \in RuntimeErrorMessages}
          /\ Len(frames') <= Len(frames)
          /\ acts' = acts]_vars

-----------------------------------------------------------------------------
(* Parameters and arguments *)

\* the slots Compiler::function_params gives the parameters of a function of
\* that arity, which a child compiler declares first in its new function scope
param_slots(arity) ==
    function_params(incr(enter_function_scope(Scope_new, 0)), 1,
                    [k \in 1..arity |-> "x"]).slots

\* the function of the closure a frame runs
frame_fn(frame) == Functions[closure_arena[frame.closure].func]

\* CALL is about to run on a closure with argc = arity, and enters it
call_enters_callee ==
    /\ Dispatch("Call")
    /\ call_func_slot >= 0
    /\ is_closure_handle(call_callee)
    /\ Len(frames') = Len(frames) + 1
    /\ frame_fn(frames'[Len(frames')]).arity = call_arg_count

\* GET_LOCAL is about to read a parameter of the running function
reads_param ==
    /\ Dispatch("GetLocal")
    /\ \E i \in 1..cur_chunk.arity : byte_at(1) = param_slots(cur_chunk.arity)[i]

-----------------------------------------------------------------------------
(* Assignments inside functions *)

\* the assignments among the instructions the last compile step emitted
assignments == {k \in DOMAIN emitted : emitted[k].op \in {"SetLocal", "SetUpvalue", "SetGlobal"}}

\* C19: An assignment compiled at scope depth >= 1 (in a function body, or of
\* a nested function's name) is emitted as SET_LOCAL or SET_UPVALUE, never as
\* SET_GLOBAL, and one compiled at depth 0 as SET_GLOBAL.
C19_AssignmentInFunctionNotGlobal ==
    \A k \in assignments :
       IF emitted[k].depth >= 1
       THEN emitted[k].op \in {"SetLocal", "SetUpvalue"}
       ELSE emitted[k].op = "SetGlobal"

\* the function two levels down has assigned to a variable its grandparent
\* declared: the assignment was compiled to SET_UPVALUE
C19_AssignedThroughUpvalue ==
    /\ Len(compilers) = 3
    /\ Len(emitted) = 1
    /\ emitted[1].op = "SetUpvalue"
    /\ emitted[1].depth = 2
    /\ \E r \in cur_compiler.refs : r.var = <<1, emitted[1].name>>

\* A step of a function (a frame above the script's) leaves every global as it
\* was: Op::SetGlobal is the only writer and no function body contains it.
GlobalsKeptInFunctions == [][Len(frames) >= 2 => globals' = globals]_vars

\* tests::test_shadowing_self has run: foo assigned 3 to its local a, and the
\* script read the global a, still 1
ShadowingSelfReturned ==
    /\ program = 32
    /\ status = "ok"
    /\ result = Num(1)
    /\ globals["a"] = Num(1)

-----------------------------------------------------------------------------
(* Upvalue indices *)

\* C20: Within one function, references to two different enclosing variables
\* never resolve to the same upvalue index, and references to one enclosing
\* variable always resolve to the same index, whatever the nesting depth.
C20_UpvalueIndexPerVariable ==
    \A c \in DOMAIN compilers :
       \A p, q \in compilers[c].refs : (p.var = q.var) <=> (p.idx = q.idx)

-----------------------------------------------------------------------------
(* The operands of CLOSURE *)

\* the Closure instructions among those the last compile step emitted
closures_emitted == {k \in DOMAIN emitted : emitted[k].op = "Closure"}

\* C21: Every Closure instruction the compiler emits is followed by as many
\* (is_local, index) byte pairs as the upvalue_count of the function it
\* refers to, which is the number of pairs Op::Closure consumes.
C21_ClosurePairsMatchCount ==
    \A k \in closures_emitted : Len(emitted[k].bytes) = 2 * emitted[k].arg

-----------------------------------------------------------------------------
\* C22: whenever an error was reported while compiling a source, also in the
\* body of a function statement or of a lambda, compile() returns the error
\* and no function.
C22_AnyErrorFailsCompile == outcome.errors > 0 => outcome.result # "Ok"


\* the identifier, in a position where assignment is not permitted, was followed
\* by = and compiled as a read
refused_assignment == outcome.refused > 0

script_operand_refused ==
    /\ source = <<"Identifier", "Plus", "Identifier", "Equal", "Identifier">>
    /\ outcome.result = "Err"
    /\ refused_assignment

\* the argument of a call compiled as an assignment, in a source compile() accepts
argument_assigned == "argument" \in outcome.assigned /\ outcome.result = "Ok"


compiled == outcome.result # "none"

\* the first statement of the script, or of the body of the function statement
\* or lambda the source is, is a return
in_frame(frame) ==
    LET start == opening(frame) \o <<"Return">>
    IN Len(source) >= Len(start) /\ SubSeq(source, 1, Len(start)) = start

-----------------------------------------------------------------------------
\* the function of the current frame returns to its caller with nothing on the
\* stack above its own closure and its arguments
returns_without_value ==
    /\ Dispatch("RETURN")
    /\ Len(frames) >= 2
    /\ Len(stack) = cur_frame.slot + 1 + cur_chunk.arity

\* C25: a call of a function whose body left no value on the stack hands null
\* to the caller.
C25_EmptyBodyReturnsNull ==
    [][returns_without_value => Top(stack') = Null]_vars


-----------------------------------------------------------------------------
\* C26: a handle remove() has returned the object for stays absent and invalid,
\* whatever is inserted later, and an insert that reuses a slot returns the
\* slot's index with a generation no removed handle of that slot has.
C26_RemovedHandleStaysInvalid ==
    /\ \A handle \in removed :
          Arena_get_from(an_arena, handle) = None /\ ~Arena_is_valid(an_arena, handle)
    /\ returned.kind = "handle" /\ returned.reused =>
          /\ \E handle \in removed : handle.index = returned.handle.index
          /\ \A handle \in removed :
                handle.index = returned.handle.index
                    => handle.generation # returned.handle.generation

\* as long as clear() has not been called the removed handles do stay invalid
RemovedInvalidUntilClear ==
    (cleared = {} /\ returned # Nothing) => C26_RemovedHandleStaysInvalid

\* tests::test_slot_reuse: the slot of the removed first handle holds "second"
SlotReused ==
    /\ cleared = {}
    /\ Handle(0, 1) \in removed
    /\ returned.kind = "handle" /\ returned.reused /\ returned.handle.index = 0
    /\ Arena_get_from(an_arena, returned.handle) = "second"

\* C27: a handle insert() returned before a clear() is invalid and absent in
\* every state after the clear, whatever has been inserted since.
C27_ClearInvalidatesHandles ==
    \A handle \in cleared :
        Arena_get_from(an_arena, handle) = None /\ ~Arena_is_valid(an_arena, handle)


-----------------------------------------------------------------------------
\* the values a finished program has left reachable: the globals, and the values
\* of the closed upvalues (which closures reachable from the globals may hold)
kept_values ==
    {globals[name] : name \in DOMAIN globals}
        \cup {upvalue_arena[u].value : u \in {k \in DOMAIN upvalue_arena : ~upvalue_arena[k].open}}

\* the closures of the arena no kept value refers to
unreferenced ==
    {i \in DOMAIN closure_arena :
        ~\E v \in kept_values : is_closure_handle(v) /\ created_for(v) = i}

\* C28: when a program has finished, every closure in the closure arena is
\* reachable from the globals.
C28_UnreferencedClosuresRemoved ==
    status = "ok" => unreferenced = {} /\ earlier_closures = 0


-----------------------------------------------------------------------------
\* GET_GLOBAL is about to look up a name the globals map has no entry for
reads_undefined_global ==
    /\ Dispatch("GetGlobal")
    /\ stack # <<>>
    /\ is_string(Top(stack))
    /\ Top(stack).s \notin DOMAIN globals

\* C29: GET_GLOBAL of a name without an entry in globals stops the run with the
\* runtime error "Undefined global" and leaves globals as it was.
C29_UndefinedGlobalIsError ==
    [][reads_undefined_global =>
           /\ status' = "error"
           /\ result' = Str("Undefined global")
           /\ globals' = globals]_vars

\* tests::test_bad_initializer: a = a has failed and a is still undefined
C29_BadInitializerFailed ==
    /\ program = 36
    /\ status = "error"
    /\ result = Str("Undefined global")
    /\ last_op = "GetGlobal"
    /\ "a" \notin DOMAIN globals


-----------------------------------------------------------------------------
\* the programs that compare the string "a" with the number 1, one for each
\* of <, <=, > and >=
ComparisonPrograms == {37, 38, 39, 40}

\* C30: each of <, <=, > and >= applied to a string and a number evaluates to
\* false, and the run ends without a runtime error.
C30_NonNumberComparisonIsFalse ==
    (program \in ComparisonPrograms /\ status \notin {"idle", "running"}) =>
        status = "ok" /\ result = Bool(FALSE)

\* "a" < 1 and "a" > 1, which compile to a single LESS or GREATER, are false
PlainComparisonIsFalse ==
    (program \in {37, 39} /\ status \notin {"idle", "running"}) =>
        status = "ok" /\ result = Bool(FALSE)

-----------------------------------------------------------------------------
\* what each program that joins a literal and the number 1 with a logical
\* operator evaluates to when the operator short-circuits: false and 1,
\* true and 1, true or 1, false or 1
LogicalValue == [p \in {41, 42, 43, 44} |->
                    CASE p = 41 -> Bool(FALSE) [] p = 42 -> Num(1)
                      [] p = 43 -> Bool(TRUE)  [] OTHER -> Num(1)]

RightOperandIsResult ==
    (program \in {42, 44} /\ status \notin {"idle", "running"}) =>
        status = "ok" /\ result = Num(1)

-----------------------------------------------------------------------------
\* C32: once an error is reported no further error is reported until
\* synchronize() has run; the errors of later statements are reported.
C32_PanicSuppressesUntilSynchronize == outcome.resurfaced = 0

\* the source has no function statement and no lambda: one Compiler reads it
one_compiler == \A i \in 1..Len(source) : source[i] \notin {"FN", "Caret"}

\* where no function is compiled every error reported after the first has
\* synchronize() between it and the one before
OneCompilerSuppresses == one_compiler => outcome.resurfaced = 0

\* two statements of such a source each had their error reported
LaterErrorReported == one_compiler /\ outcome.errors = 2

-----------------------------------------------------------------------------
\* the locals of every function that is being compiled before and after the
\* step stay in their slots: its list of locals only grows at the end
locals_keep_slots ==
    \A d \in 1..Min(Len(compilers), Len(compilers')) :
        /\ Len(scope_stack'[d].locals) >= Len(scope_stack[d].locals)
        /\ SubSeq(scope_stack'[d].locals, 1, Len(scope_stack[d].locals))
               = scope_stack[d].locals

\* the k-th parameter of the function that has just been entered is in slot k
params_from_slot_1 ==
    \A k \in DOMAIN emitted : emitted[k].op = "param" => emitted[k].arg = k

\* C33: a local keeps its slot while its function is compiled, and the
\* parameters of every function and lambda start at slot 1, whatever
\* functions were compiled before it.
C33_SlotsStableAndSiblingsFresh == [][locals_keep_slots /\ params_from_slot_1']_vars

\* the second of two sibling functions has been entered, and its first
\* parameter is in slot 1
SecondSiblingParamInSlot1 ==
    /\ fns = 2
    /\ Len(compilers) = 2
    /\ emitted # <<>>
    /\ emitted[1].op = "param"
    /\ emitted[1].arg = 1

-----------------------------------------------------------------------------
\* the most upvalues a function may have
MAX_UPVALS == 255

\* C34: no Closure instruction is emitted for a function with more than 255
\* upvalue descriptors: capturing a 256th variable is a compile error.
C34_AtMost255Upvalues ==
    \A k \in closures_emitted : Len(emitted[k].bytes) <= 2 * MAX_UPVALS


-----------------------------------------------------------------------------
(* The constant pool, the loops and the line table of a chunk *)

\* what a constant is to the program: its type and its content, the address
\* of a string left out
content(idx) ==
    [the_chunk.constants[idx + 1] EXCEPT !.n = IF the_chunk.constants[idx + 1].t = "str" THEN 0 ELSE @]

\* C35: the constant pool holds no two equal values (a string equal in
\* content to one in the pool, as the name of a global referenced again is,
\* gets the index of that one and the pool does not grow), and an index
\* that was handed out still holds the value it was handed out for
C35_ConstantPoolDeduplicates ==
    /\ \A i, j \in 0..(Len(the_chunk.constants) - 1) : content(i) = content(j) => i = j
    /\ \A h \in handed : the_chunk.constants[h[1] + 1] = h[2]

\* numbers are deduplicated and no index that was handed out changes
NumbersDeduplicateIndicesStable ==
    /\ \A i, j \in 0..(Len(the_chunk.constants) - 1) :
          the_chunk.constants[i + 1] = the_chunk.constants[j + 1] => i = j
    /\ \A h \in handed : the_chunk.constants[h[1] + 1] = h[2]

\* a number was added a second time and the pool did not grow
NumberAddedTwice ==
    \E i \in 1..(Len(the_chunk.code) - 5) :
        /\ the_chunk.code[i] = 1 /\ the_chunk.code[i + 3] = 1
        /\ the_chunk.code[i + 1] = the_chunk.code[i + 4]
        /\ the_chunk.code[i + 2] = the_chunk.code[i + 5]
        /\ the_chunk.constants[the_chunk.code[i + 2] + 1].t = "num"


\* C36: the build does not stop the compiler at a while statement, and the
\* Loop written for a while statement jumps back to the first byte of the
\* code of that statement's condition
C36_LoopJumpsToCondition ==
    /\ ~panicked
    /\ \A l \in loops : Loop_target(the_chunk.code, l.at) = l.condition

\* the same for the while statements that are not the first code of the chunk
LoopJumpsToConditionAfterCode ==
    \A l \in loops : l.condition > 0 => Loop_target(the_chunk.code, l.at) = l.condition

\* a while statement inside the body of another has been compiled
NestedLoopCompiled ==
    \E l \in loops : l.condition > 0 /\ whiles # <<>> /\ whiles[1].exit_jump >= 0

\* C37: line_number_at of the offset of a byte is the line the byte was
\* written with
C37_LineOfEveryByte ==
    \A i \in 1..Len(the_chunk.code) : line_number_at(the_chunk, i - 1) = written[i]

\* line_number_at is right for the first byte written on each line
LineOfFirstByteOfLine ==
    \A i \in 1..Len(the_chunk.code) :
        (i = 1 \/ written[i - 1] # written[i]) => line_number_at(the_chunk, i - 1) = written[i]

\* code was written on three lines
ThreeLinesWritten ==
    \E i, j, k \in 1..Len(the_chunk.code) : written[i] < written[j] /\ written[j] < written[k]


-----------------------------------------------------------------------------
(* RETURN and the upvalues over the locals of the frames below *)

\* the Open upvalues whose slot is below the slot of the current frame
below_return_slot ==
    {h \in DOMAIN upvalue_arena : upvalue_arena[h].open /\ upvalue_arena[h].idx < cur_frame.slot}

\* C38: a RETURN leaves every Open upvalue whose slot is below the returning
\* frame's slot as it was, and the program whose outer function writes 5 to
\* its local between two calls of the inner function that reads the local
\* ends with 5, the value read by the second call
C38_ReturnLeavesLowerUpvaluesOpen ==
    [][/\ Dispatch("RETURN") =>
            \A h \in below_return_slot : upvalue_arena'[h] = upvalue_arena[h]
       /\ (program' = 45 /\ status' = "ok") => result' = Num(5)]_vars

\* the inner function has returned for the second time: its upvalue over the
\* local of the outer function is Open and its read gave the 5 written after
\* its first return
WriteAfterReturnSeen ==
    /\ program = 45
    /\ last_op = "RETURN"
    /\ Len(frames) = 2
    /\ uv_read.val = Num(5)
    /\ \E h \in DOMAIN upvalue_arena : upvalue_arena[h].open /\ stack[upvalue_arena[h].idx + 1] = Num(5)


-----------------------------------------------------------------------------
(* The free list of an arena *)

\* C39: the free list holds an index at most once and only indices of empty
\* slots, no two valid handles refer to one slot, and in an arena that was
\* only inserted into and removed from, removing a handle that was removed
\* before returns nothing and leaves the arena as it is
C39_FreeListSound ==
    /\ \A i, j \in DOMAIN an_arena.free_list :
          an_arena.free_list[i] = an_arena.free_list[j] => i = j
    /\ \A i \in DOMAIN an_arena.free_list :
          /\ an_arena.free_list[i] < Len(an_arena.objects)
          /\ an_arena.objects[an_arena.free_list[i] + 1] = None
    /\ \A g, h \in handles :
          (Arena_is_valid(an_arena, g) /\ Arena_is_valid(an_arena, h) /\ g.index = h.index) => g = h
    /\ cleared = {} =>
          \A h \in removed : Arena_remove(an_arena, h) = [arena |-> an_arena, object |-> None]

\* a handle was removed, its slot was given to a later insert, and a remove
\* has just returned nothing while another slot is on the free list
RemovedTwiceAfterReuse ==
    /\ cleared = {}
    /\ returned = [kind |-> "object", object |-> None]
    /\ an_arena.free_list # <<>>
    /\ \E h \in removed : an_arena.objects[h.index + 1] # None


-----------------------------------------------------------------------------
(* Termination of Compiler::compile *)

\* C40: compile() returns for every token sequence: no call of it recurses
\* without end
C40_CompileTerminates == outcome.result # "overflow"

\* compile() returns for every token sequence that does not end with "("
TerminatesUnlessOpenParen ==
    (source = <<>> \/ source[Len(source)] # "LeftParen") => outcome.result # "overflow"

=============================================================================
